---- MODULE Spec2Model ----
(***************************************************************************)
(* Model of the calendar panel of the Google Tasks extension:              *)
(*   - the panel surface (the script of the web view: day-cell click       *)
(*     timers, the inline event form, the messages it posts);              *)
(*   - the controller (CalendarWebViewProvider: its fields, its message    *)
(*     handlers and their suspension points at awaited remote calls);      *)
(*   - the two remote stores behind CalendarProvider and the task service. *)
(* Spec runs surface, controller and stores together, untimed. SpecClick   *)
(* runs the timed click machine of the surface, SpecForm the inline form   *)
(* of an open panel, SpecPanel the opening, closing, navigation and        *)
(* deletion, SpecEditTask the method submitEditTask for each list id.      *)
(***************************************************************************)
EXTENDS Integers, Sequences, FiniteSets, TLC

VARIABLES
    \* ---- panel surface (web view script) ----
    now,               \* Date.now() of the surface, in ms
    lastClickTime,     \* per day cell: closure variable lastClickTime
    dayClickTimeouts,  \* the Map dayClickTimeouts: day -> timer handle
    liveTimers,        \* timers set with setTimeout and not yet fired or cleared
    browserClick,      \* the browser's click counter: last press and its count
    pendingDbl,        \* day cell whose dblclick event is being dispatched
    wvSelectedDate,    \* script variable selectedDate
    form,              \* the inline event form (DOM state of #eventForm)
    pressLog,          \* history: one record per press on a day cell
    rendered,          \* the web view holds a document (webview.html was set)
    view,              \* what that document shows: [items, month, year]
    inbox,             \* messages posted by the surface, not yet delivered
    posted,            \* messages posted and commands issued so far
    \* ---- controller (CalendarWebViewProvider) ----
    panel,             \* this.panel is defined
    currentMonth,
    currentYear,
    selectedDate,
    eventFormMode,
    editingEventId,
    editingEventData,
    editingEventType,
    editingTaskListId,
    handlers,          \* one record per started handler, in arrival order
    \* ---- remote stores ----
    remoteEvents,      \* the events of the primary calendar
    remoteTasks,       \* the tasks of all task lists
    failures,          \* remote calls that have failed so far
    \* ---- date utilities ----
    conv,              \* the date being converted: the picked local date and
                       \* time, the zone offset, and the instant written
    merged,            \* a call of mergeItems: its two inputs and its result
    util,              \* a call of a date utility: the function, its
                       \* argument and surroundings, and its result
    \* ---- task tree, schedule editor, calendar provider ----
    tree,              \* GTaskTreeProvider, its remote requests and commands
    scheduler,         \* ScheduleWebViewProvider and its panel
    calendar           \* CalendarProvider: the stored event and its updates

clickVars == <<now, lastClickTime, dayClickTimeouts, liveTimers, browserClick,
               pendingDbl, pressLog>>

surfaceVars == <<wvSelectedDate, form, rendered, view>>

formFields == <<eventFormMode, editingEventId, editingEventData,
                editingEventType, editingTaskListId>>

ctrlVars == <<panel, currentMonth, currentYear, selectedDate, formFields>>

storeVars == <<remoteEvents, remoteTasks, failures>>

sideVars == <<tree, scheduler, calendar>>

vars == <<clickVars, surfaceVars, inbox, posted, ctrlVars, handlers, storeVars, conv, merged, util, sideVars>>

None == "none"

\* A timer handle is a positive integer; the Map holds no handle for a key.
NoTimer == 0

\* ---- bounds of the model ----
MaxPresses == 4        \* presses on day cells in one run of SpecClick
MaxTicks == 8          \* clock ticks in one run of SpecClick
SysDblClickTicks == 5  \* the system's double-click interval, in ticks (500 ms)
MaxPosts == 2          \* commands issued and posting user actions in one run
MaxFailures == 1       \* remote calls that fail in one run
MaxActive == 2         \* handlers in flight at once

\* ---- program constants ----
DOUBLE_CLICK_DELAY == 300

\* One clock tick of the model, in ms.
TickMs == DOUBLE_CLICK_DELAY \div 3

\* Date.now() when the page is loaded: any instant far from the epoch.
StartMs == 10 * DOUBLE_CLICK_DELAY

\* A calendar date 'YYYY-MM-DD' is the integer YYYYMMDD: the integers order as
\* the strings do under localeCompare. No date (null, undefined, '') is NoDate.
NoDate == 0
DayCells == {20251020, 20251021}

\* ------------------------------------------------------------------------
\* The inline event form
\* ------------------------------------------------------------------------

FormHidden ==
    [active |-> FALSE, mode |-> None, eventId |-> None, itemType |-> None,
     radioTask |-> FALSE, title |-> "", date |-> NoDate, isAllDay |-> FALSE,
     alerted |-> FALSE]

\* showEventForm(mode, eventId, eventData): itemType defaults to 'calendar',
\* the radio buttons follow it, the dataset keeps mode, eventId and itemType.
ShowEventForm(mode, eventId, eventData) ==
    LET itemType == IF eventData.itemType = None THEN "calendar"
                    ELSE eventData.itemType
    IN [active |-> TRUE, mode |-> mode, eventId |-> eventId,
        itemType |-> itemType, radioTask |-> (itemType = "task"),
        title |-> eventData.title, date |-> eventData.date,
        isAllDay |-> eventData.isAllDay, alerted |-> FALSE]

\* ------------------------------------------------------------------------
\* Day-cell click machine
\* ------------------------------------------------------------------------

\* The keys of dayClickTimeouts that a click or dblclick on day cell d reads
\* and clears: dayClickTimeouts.get(dateAttr). With one timer shared by all
\* cells it would be every key.
SharedTimeoutKeys(d) == DayCells
TimeoutKeys(d) == {d}

\* clearTimeout(handle): the timer no longer fires.
ClearTimeouts(handles) == {t \in liveTimers : t.press \notin handles}

MarkCancelled(log, handles, by) ==
    [i \in 1..Len(log) |->
        IF i \in handles /\ log[i].fate = "pending"
        THEN [log[i] EXCEPT !.fate = "cancelled", !.by = by]
        ELSE log[i]]

\* The click count the browser gives a press: 2 when it follows a first press
\* on the same cell within the system's double-click interval.
ClickCount(d) ==
    IF /\ browserClick.day = d
       /\ browserClick.count = 1
       /\ now - browserClick.at <= SysDblClickTicks * TickMs
    THEN 2 ELSE 1

\* day.addEventListener('click', ...)
ClickDay(d) ==
    /\ pendingDbl = NoDate
    /\ Len(pressLog) < MaxPresses
    /\ LET timeSinceLastClick == now - lastClickTime[d]
           idx == Len(pressLog) + 1
           cnt == ClickCount(d)
           existing == {dayClickTimeouts[k] : k \in TimeoutKeys(d)} \ {NoTimer}
           press == [day |-> d, at |-> now, count |-> cnt, fate |-> "pending",
                     by |-> NoDate, forms |-> 0]
       IN /\ lastClickTime' = [lastClickTime EXCEPT ![d] = now]
          /\ browserClick' = [day |-> d, at |-> now, count |-> cnt]
          /\ pendingDbl' = IF cnt = 2 THEN d ELSE NoDate
          /\ IF timeSinceLastClick < DOUBLE_CLICK_DELAY /\ timeSinceLastClick > 0
             THEN /\ pressLog' = Append(pressLog, [press EXCEPT !.fate = "ignored"])
                  /\ UNCHANGED <<dayClickTimeouts, liveTimers>>
             ELSE /\ liveTimers' = ClearTimeouts(existing) \cup
                        {[press |-> idx, day |-> d, due |-> now + DOUBLE_CLICK_DELAY]}
                  /\ dayClickTimeouts' = [dayClickTimeouts EXCEPT ![d] = idx]
                  /\ pressLog' = Append(MarkCancelled(pressLog, existing, d), press)
    /\ UNCHANGED <<now, wvSelectedDate, form, rendered, view>>
    /\ UNCHANGED <<sideVars, conv, merged, util, inbox, posted, ctrlVars, handlers, storeVars>>

\* day.addEventListener('dblclick', ...) without its clearTimeout
DblClickDayNoClear(d) ==
    /\ pendingDbl = d
    /\ pendingDbl' = NoDate
    /\ pressLog' = [pressLog EXCEPT ![Len(pressLog)].forms = @ + 1]
    /\ form' = ShowEventForm("create", None,
                  [title |-> "", date |-> d, isAllDay |-> FALSE, itemType |-> None])
    /\ UNCHANGED <<now, lastClickTime, browserClick, wvSelectedDate,
                   liveTimers, dayClickTimeouts, rendered, view>>
    /\ UNCHANGED <<sideVars, conv, merged, util, inbox, posted, ctrlVars, handlers, storeVars>>

DblClickDay(d) ==
    /\ pendingDbl = d
    /\ pendingDbl' = NoDate
    /\ LET existing == {dayClickTimeouts[k] : k \in TimeoutKeys(d)} \ {NoTimer}
       IN /\ liveTimers' = ClearTimeouts(existing)
          /\ dayClickTimeouts' =
                [k \in DayCells |->
                    IF k \in TimeoutKeys(d) /\ dayClickTimeouts[k] # NoTimer
                    THEN NoTimer ELSE dayClickTimeouts[k]]
          /\ pressLog' = [MarkCancelled(pressLog, existing, d)
                             EXCEPT ![Len(pressLog)].forms = @ + 1]
    /\ form' = ShowEventForm("create", None,
                  [title |-> "", date |-> d, isAllDay |-> FALSE, itemType |-> None])
    /\ UNCHANGED <<now, lastClickTime, browserClick, wvSelectedDate, rendered, view>>
    /\ UNCHANGED <<sideVars, conv, merged, util, inbox, posted, ctrlVars, handlers, storeVars>>

\* The callback given to setTimeout in the click handler: the selection toggle.
TimerFire(t) ==
    /\ pendingDbl = NoDate
    /\ t \in liveTimers
    /\ now >= t.due
    /\ wvSelectedDate' = IF wvSelectedDate = t.day THEN NoDate ELSE t.day
    /\ dayClickTimeouts' = [dayClickTimeouts EXCEPT ![t.day] = NoTimer]
    /\ liveTimers' = liveTimers \ {t}
    /\ pressLog' = [pressLog EXCEPT ![t.press].fate = "fired"]
    /\ UNCHANGED <<now, lastClickTime, browserClick, pendingDbl, form, rendered, view>>
    /\ UNCHANGED <<sideVars, conv, merged, util, inbox, posted, ctrlVars, handlers, storeVars>>

\* Time passes; a timer that is due fires before the clock moves on.
Tick ==
    /\ pendingDbl = NoDate
    /\ now < StartMs + MaxTicks * TickMs
    /\ \A t \in liveTimers : t.due > now
    /\ now' = now + TickMs
    /\ UNCHANGED <<lastClickTime, dayClickTimeouts, liveTimers, browserClick,
                   pendingDbl, wvSelectedDate, form, pressLog, rendered, view>>
    /\ UNCHANGED <<sideVars, conv, merged, util, inbox, posted, ctrlVars, handlers, storeVars>>

\* ------------------------------------------------------------------------
\* Remote stores and the merged projection
\* ------------------------------------------------------------------------

\* new Date() of this run: 20 October 2025 (getMonth() is 0-based).
Today == 20251020
YearOf(date) == date \div 10000
MonthOf(date) == ((date \div 100) % 100) - 1

\* tasklists.list(): the ids of the task lists, in listing order.
TaskLists == <<"L1", "L2">>

\* The ids the stores give to the items created in a run, by creating handler.
NewIds == <<"n1", "n2", "n3", "n4", "n5", "n6", "n7", "n8", "n9">>

\* Every id, in the order the stores list items of the same date.
IdOrder == <<"t1", "e1", "e2">> \o NewIds

\* The stores when the panel is first opened: a task of list L2, a plain
\* event and an event tagged as a task (extendedProperties.private.isTask).
InitTasks == {[id |-> "t1", list |-> "L2", title |-> "T", due |-> 20251020]}
InitEvents ==
    {[id |-> "e1", summary |-> "T", start |-> TRUE, date |-> 20251021,
      allDay |-> FALSE, isTask |-> FALSE],
     [id |-> "e2", summary |-> "T", start |-> TRUE, date |-> 20251020,
      allDay |-> FALSE, isTask |-> TRUE]}

Ids(items) == {x.id : x \in items}
ItemOf(items, id) == CHOOSE x \in items : x.id = id

\* The members of a set of store items as a sequence, in IdOrder.
RECURSIVE InIdOrder(_, _)
InIdOrder(items, k) ==
    IF k > Len(IdOrder) THEN <<>>
    ELSE (IF IdOrder[k] \in Ids(items)
          THEN <<ItemOf(items, IdOrder[k])>> ELSE <<>>)
         \o InIdOrder(items, k + 1)

\* getEventsForMonth(year, month): the events that start in that month.
GetEventsForMonth(year, month) ==
    InIdOrder({e \in remoteEvents :
                  YearOf(e.date) = year /\ MonthOf(e.date) = month}, 1)

\* tasks.list({tasklist}) followed by the filter on task.due.
TasksWithSchedules(list) ==
    InIdOrder({t \in remoteTasks : t.list = list /\ t.due # NoDate}, 1)

\* calendarEventToUnified: an event tagged isTask is shown as a task.
EventType(e) == IF e.isTask THEN "task" ELSE "calendar"

\* dueDate is the date text of start.date or start.dateTime (NoDate when the
\* start has neither); dueDateTime is start.dateTime, present for a timed start.
CalendarEventToUnified(e) ==
    [id |-> e.id, type |-> EventType(e), title |-> e.summary,
     dueDate |-> e.date, hasTime |-> ~e.allDay /\ e.date # NoDate,
     isAllDay |-> e.allDay /\ e.date # NoDate,
     taskListId |-> None, store |-> "calendar"]

\* taskToUnified: neither dueDateTime nor isAllDay is set, and an isAllDay
\* that is undefined reads as false.
TaskToUnified(t) ==
    [id |-> t.id, type |-> "task", title |-> t.title, dueDate |-> t.due,
     hasTime |-> FALSE, isAllDay |-> FALSE, taskListId |-> t.list,
     store |-> "tasks"]

\* A comparator that orders by date alone.
DateBefore(a, b) == a.dueDate < b.dueDate

\* The comparator of mergeItems is negative: a goes before b.
ItemBefore(a, b) ==
    \/ a.dueDate < b.dueDate
    \/ a.dueDate = b.dueDate /\ a.type = "task" /\ b.type = "calendar"

\* An insertion that puts x in front of the items it ties with.
RECURSIVE InsertItemFirst(_, _)
InsertItemFirst(sorted, x) ==
    IF sorted = <<>> THEN <<x>>
    ELSE IF ~ItemBefore(Head(sorted), x) THEN <<x>> \o sorted
    ELSE <<Head(sorted)>> \o InsertItemFirst(Tail(sorted), x)

\* Array.prototype.sort is stable: x goes behind every item it is not before.
RECURSIVE InsertItem(_, _)
InsertItem(sorted, x) ==
    IF sorted = <<>> THEN <<x>>
    ELSE IF ItemBefore(x, Head(sorted)) THEN <<x>> \o sorted
    ELSE <<Head(sorted)>> \o InsertItem(Tail(sorted), x)

RECURSIVE SortItems(_)
SortItems(items) ==
    IF items = <<>> THEN <<>>
    ELSE InsertItem(SortItems(SubSeq(items, 1, Len(items) - 1)),
                    items[Len(items)])

RECURSIVE MapSeq(_, _)
MapSeq(seq, kind) ==
    IF seq = <<>> THEN <<>>
    ELSE <<IF kind = "task" THEN TaskToUnified(Head(seq))
           ELSE CalendarEventToUnified(Head(seq))>> \o MapSeq(Tail(seq), kind)

\* The filters of mergeItems: a task needs a title and a due value, an event
\* an id, a summary and a start object.
TaskKept(t) == t.title # "" /\ t.due # NoDate
EventKept(e) == e.id # "" /\ e.summary # "" /\ e.start

\* mergeItems(tasks, calendarEvents)
MergeItems(tasks, events) ==
    SortItems(MapSeq(SelectSeq(tasks, TaskKept), "task")
              \o MapSeq(SelectSeq(events, EventKept), "calendar"))

\* A call of mergeItems on its own: the inputs are any tasks and events the
\* stores can return, the result is kept beside them.
MaxTasksIn == 2
MaxEventsIn == 3

NoMerge == [tasks |-> <<>>, events |-> <<>>, out |-> <<>>, called |-> FALSE]

\* Tasks: two of the same day in different lists, one without a title, one
\* without a due value, one of an earlier day.
TasksIn ==
    {[id |-> "m1", list |-> "L1", title |-> "T", due |-> 20251020],
     [id |-> "m2", list |-> "L2", title |-> "T", due |-> 20251020],
     [id |-> "m3", list |-> "L1", title |-> "", due |-> 20251021],
     [id |-> "m4", list |-> "L1", title |-> "T", due |-> NoDate],
     [id |-> "m5", list |-> "L2", title |-> "T", due |-> 20251019]}

\* Events: two plain timed events of the same day, a timed and an all-day
\* event tagged as a task, an event without a summary, an event whose start
\* object holds neither date nor dateTime, an all-day event of an earlier day.
EventsIn ==
    {[id |-> "v1", summary |-> "T", start |-> TRUE, date |-> 20251020,
      allDay |-> FALSE, isTask |-> FALSE],
     [id |-> "v2", summary |-> "T", start |-> TRUE, date |-> 20251020,
      allDay |-> FALSE, isTask |-> FALSE],
     [id |-> "v3", summary |-> "T", start |-> TRUE, date |-> 20251020,
      allDay |-> FALSE, isTask |-> TRUE],
     [id |-> "v4", summary |-> "T", start |-> TRUE, date |-> 20251021,
      allDay |-> TRUE, isTask |-> TRUE],
     [id |-> "v5", summary |-> "", start |-> TRUE, date |-> 20251021,
      allDay |-> FALSE, isTask |-> FALSE],
     [id |-> "v6", summary |-> "T", start |-> TRUE, date |-> NoDate,
      allDay |-> FALSE, isTask |-> FALSE],
     [id |-> "v7", summary |-> "T", start |-> TRUE, date |-> 20251019,
      allDay |-> TRUE, isTask |-> FALSE]}

\* The sequences of at most n different members of a set.
SeqsOf(U, n) ==
    UNION {{q \in [1..k -> U] : \A i, j \in 1..k : i # j => q[i] # q[j]} :
           k \in 0..n}

\* unifiedItems = mergeItems(tasksWithSchedules, events)
MergeCall ==
    /\ ~merged.called
    /\ merged' = [merged EXCEPT !.out = MergeItems(merged.tasks, merged.events),
                                !.called = TRUE]
    /\ UNCHANGED <<clickVars, surfaceVars, inbox, posted, ctrlVars, handlers,
                   storeVars, conv, util, sideVars>>

\* ------------------------------------------------------------------------
\* Messages and handlers
\* ------------------------------------------------------------------------

NoEventData == [present |-> FALSE, itemType |-> None, taskListId |-> None]

\* The start and end of a request to the calendar store: the field each value
\* is put in (date or dateTime) and what the value is, a pure date
\* (YYYY-MM-DD) or a full instant.
NoBody ==
    [present |-> FALSE, isAllDay |-> FALSE, startField |-> None,
     startKind |-> None, endField |-> None, endKind |-> None]

\* submitCreateEvent and submitEditEvent: startDate and endDate are results
\* of toISOString(), with or without isAllDay.
EventTimes(fd) ==
    [isAllDay |-> fd.isAllDay, startKind |-> "instant", endKind |-> "instant"]

\* createEvent and updateEvent: isAllDay chooses the field, the values are
\* passed on as they come.
RequestBody(eventData) ==
    [present |-> TRUE, isAllDay |-> eventData.isAllDay,
     startField |-> IF eventData.isAllDay THEN "date" ELSE "dateTime",
     startKind |-> eventData.startKind,
     endField |-> IF eventData.isAllDay THEN "date" ELSE "dateTime",
     endKind |-> eventData.endKind]
NoFormData == [title |-> "", date |-> NoDate, isAllDay |-> FALSE]

\* A CalendarMessage; a field the sender leaves out holds its empty value.
Message(type) ==
    [type |-> type, month |-> 0, year |-> 0, date |-> NoDate, eventId |-> None,
     itemType |-> None, mode |-> None, eventData |-> NoEventData,
     formData |-> NoFormData]

\* One activation of the listener of onDidReceiveMessage (or of showCalendar):
\* pc is the awaited call it is suspended at, the rest are its locals, the
\* notifications it has shown and the remote calls it has made.
NewHandler(msg) ==
    [type |-> msg.type, msg |-> msg, pc |-> "start",
     reqYear |-> 0, reqMonth |-> 0, events |-> <<>>, tasks |-> <<>>,
     i |-> 0, first |-> None, answers |-> <<>>, renders |-> 0,
     notes |-> {}, calls |-> <<>>, body |-> NoBody]

Call(op, id, list) == [op |-> op, id |-> id, list |-> list]

\* The answers a remote call can give: a failure (network, quota, server) is
\* possible while the run has failures left.
MayFail == IF failures < MaxFailures THEN {"error"} ELSE {}
Answers(found) == (IF found THEN {"ok"} ELSE {"notFound"}) \cup MayFail
Failed(answer) == IF answer = "error" THEN 1 ELSE 0

\* ------------------------------------------------------------------------
\* Controller: refreshCalendar
\* ------------------------------------------------------------------------

KeepFormFields == UNCHANGED formFields
ClearFormFields ==
    /\ eventFormMode' = None
    /\ editingEventId' = None
    /\ editingEventData' = NoEventData
    /\ editingEventType' = None
    /\ editingTaskListId' = None

\* The awaited chain of a handler has returned. showCalendar then calls
\* this.panel.reveal(), which throws when the panel is gone.
Return(hr) ==
    [hr EXCEPT !.pc = IF hr.type = "showCalendar" /\ ~panel
                      THEN "threw" ELSE "done"]

Notify(hr, text) == [hr EXCEPT !.notes = @ \cup {text}]
Calls(hr, call) == [hr EXCEPT !.calls = Append(@, call)]

\* refreshCalendar up to its first await: it returns at once without a panel.
EnterRefresh(hr, year, month, open) ==
    IF ~open THEN Return(hr)
    ELSE Calls([hr EXCEPT !.pc = "rf_events", !.reqYear = year,
                          !.reqMonth = month, !.events = <<>>,
                          !.tasks = <<>>, !.i = 0],
               Call("events.list", None, None))

\* The document the controller writes: getWebViewContent(unifiedItems).
WebViewContent(hr) ==
    [items |-> MergeItems(hr.tasks, hr.events), month |-> currentMonth,
     year |-> currentYear]

\* One step of handler h ends with handler record hr. With render, the step
\* reached this.panel.webview.html = ...: the document is replaced (and its
\* script state with it), or the assignment throws on the missing panel and
\* the catch of refreshCalendar reports it. The listener of a submitEventForm
\* clears the form fields when its chain has returned.
Commit(h, hr, render) ==
    LET hr2 == IF ~render THEN hr
               ELSE IF panel THEN Return([hr EXCEPT !.renders = @ + 1])
               ELSE Return(Notify(hr, "Failed to load calendar"))
    IN /\ handlers' = [handlers EXCEPT ![h] = hr2]
       /\ IF render /\ panel
          THEN /\ view' = WebViewContent(hr)
               /\ wvSelectedDate' = selectedDate
               /\ form' = FormHidden
               /\ rendered' = TRUE
          ELSE UNCHANGED surfaceVars
       /\ IF hr2.pc = "done" /\ hr2.type = "submitEventForm"
          THEN ClearFormFields
          ELSE UNCHANGED formFields

Suspended(h, pc) == h \in 1..Len(handlers) /\ handlers[h].pc = pc

\* refreshCalendar resumed after getEventsForMonth
RefreshEvents(h) ==
    /\ Suspended(h, "rf_events")
    /\ \E a \in Answers(TRUE) :
        LET hr == handlers[h]
        IN /\ failures' = failures + Failed(a)
           /\ IF a = "ok"
              THEN Commit(h, Calls([hr EXCEPT !.pc = "rf_lists",
                                      !.events = GetEventsForMonth(hr.reqYear, hr.reqMonth)],
                                   Call("tasklists.list", None, None)), FALSE)
              ELSE Commit(h, Return(Notify(hr, "Failed to load calendar")), FALSE)
    /\ UNCHANGED <<sideVars, conv, merged, util, clickVars, inbox, posted, panel, currentMonth, currentYear,
                   selectedDate, remoteEvents, remoteTasks>>

\* refreshCalendar resumed after tasklists.list: a failure is logged and the
\* merge goes on without tasks.
RefreshLists(h) ==
    /\ Suspended(h, "rf_lists")
    /\ \E a \in Answers(TRUE) :
        LET hr == handlers[h]
        IN /\ failures' = failures + Failed(a)
           /\ IF a = "ok" /\ Len(TaskLists) > 0
              THEN Commit(h, Calls([hr EXCEPT !.pc = "rf_tasks", !.i = 1],
                                   Call("tasks.list", None, TaskLists[1])), FALSE)
              ELSE Commit(h, hr, TRUE)
    /\ UNCHANGED <<sideVars, conv, merged, util, clickVars, inbox, posted, panel, currentMonth, currentYear,
                   selectedDate, remoteEvents, remoteTasks>>

\* refreshCalendar resumed after tasks.list of list i
RefreshTasks(h) ==
    /\ Suspended(h, "rf_tasks")
    /\ \E a \in Answers(TRUE) :
        LET hr == handlers[h]
            got == [hr EXCEPT !.tasks = @ \o TasksWithSchedules(TaskLists[hr.i])]
        IN /\ failures' = failures + Failed(a)
           /\ IF a = "ok" /\ hr.i < Len(TaskLists)
              THEN Commit(h, Calls([got EXCEPT !.i = @ + 1],
                                   Call("tasks.list", None, TaskLists[hr.i + 1])), FALSE)
              ELSE IF a = "ok" THEN Commit(h, got, TRUE)
              ELSE Commit(h, hr, TRUE)
    /\ UNCHANGED <<sideVars, conv, merged, util, clickVars, inbox, posted, panel, currentMonth, currentYear,
                   selectedDate, remoteEvents, remoteTasks>>

\* ------------------------------------------------------------------------
\* Controller: the submit and delete chains
\* ------------------------------------------------------------------------

\* submitCreateEvent resumed after calendarProvider.createEvent
CreateEventDone(h) ==
    /\ Suspended(h, "ce_insert")
    /\ \E a \in Answers(TRUE) :
        LET hr == handlers[h]
            fd == hr.msg.formData
        IN /\ failures' = failures + Failed(a)
           /\ IF a = "ok"
              THEN /\ remoteEvents' = remoteEvents \cup
                        {[id |-> NewIds[h], summary |-> fd.title, start |-> TRUE,
                          date |-> fd.date, allDay |-> fd.isAllDay,
                          isTask |-> FALSE]}
                   /\ Commit(h, EnterRefresh(Notify(hr, "Event created!"),
                                             currentYear, currentMonth, panel), FALSE)
              ELSE /\ UNCHANGED remoteEvents
                   /\ Commit(h, Return(Notify(hr, "Failed to create event")), FALSE)
    /\ UNCHANGED <<sideVars, conv, merged, util, clickVars, inbox, posted, panel, currentMonth, currentYear,
                   selectedDate, remoteTasks>>

\* submitCreateTaskFromForm resumed after tasklists.list
CreateTaskLists(h) ==
    /\ Suspended(h, "ct_lists")
    /\ \E a \in Answers(TRUE) :
        LET hr == handlers[h]
        IN /\ failures' = failures + Failed(a)
           /\ IF a = "ok" /\ Len(TaskLists) > 0
              THEN Commit(h, Calls([hr EXCEPT !.pc = "ct_insert"],
                                   Call("tasks.insert", None, TaskLists[1])), FALSE)
              ELSE IF a = "ok"
              THEN Commit(h, Return(Notify(hr, "No task lists found")), FALSE)
              ELSE Commit(h, Return(Notify(hr, "Failed to create task")), FALSE)
    /\ UNCHANGED <<sideVars, conv, merged, util, clickVars, inbox, posted, panel, currentMonth, currentYear,
                   selectedDate, remoteEvents, remoteTasks>>

\* submitCreateTaskFromForm resumed after taskProvider.addTask
CreateTaskDone(h) ==
    /\ Suspended(h, "ct_insert")
    /\ \E a \in Answers(TRUE) :
        LET hr == handlers[h]
            fd == hr.msg.formData
        IN /\ failures' = failures + Failed(a)
           /\ IF a = "ok"
              THEN /\ remoteTasks' = remoteTasks \cup
                        {[id |-> NewIds[h], list |-> TaskLists[1],
                          title |-> fd.title, due |-> fd.date]}
                   /\ Commit(h, EnterRefresh(Notify(hr, "Task created"),
                                             currentYear, currentMonth, panel), FALSE)
              ELSE /\ UNCHANGED remoteTasks
                   /\ Commit(h, Return(Notify(hr, "Failed to create task")), FALSE)
    /\ UNCHANGED <<sideVars, conv, merged, util, clickVars, inbox, posted, panel, currentMonth, currentYear,
                   selectedDate, remoteEvents>>

\* calendarProvider.updateEvent resumed after events.get
EditEventGet(h) ==
    /\ Suspended(h, "ee_get")
    /\ \E a \in Answers(handlers[h].msg.eventId \in Ids(remoteEvents)) :
        LET hr == handlers[h]
        IN /\ failures' = failures + Failed(a)
           /\ IF a = "ok"
              THEN Commit(h, Calls([hr EXCEPT !.pc = "ee_update",
                                      !.body = RequestBody(EventTimes(hr.msg.formData))],
                                   Call("events.update", hr.msg.eventId, None)), FALSE)
              ELSE Commit(h, Return(Notify(hr, "Failed to update event")), FALSE)
    /\ UNCHANGED <<sideVars, conv, merged, util, clickVars, inbox, posted, panel, currentMonth, currentYear,
                   selectedDate, remoteEvents, remoteTasks>>

\* submitEditEvent resumed after events.update
EditEventDone(h) ==
    /\ Suspended(h, "ee_update")
    /\ \E a \in Answers(handlers[h].msg.eventId \in Ids(remoteEvents)) :
        LET hr == handlers[h]
            fd == hr.msg.formData
            old == ItemOf(remoteEvents, hr.msg.eventId)
        IN /\ failures' = failures + Failed(a)
           /\ IF a = "ok"
              THEN /\ remoteEvents' = (remoteEvents \ {old}) \cup
                        {[old EXCEPT !.summary = fd.title, !.date = fd.date,
                                     !.allDay = fd.isAllDay]}
                   /\ Commit(h, EnterRefresh(Notify(hr, "Event updated!"),
                                             currentYear, currentMonth, panel), FALSE)
              ELSE /\ UNCHANGED remoteEvents
                   /\ Commit(h, Return(Notify(hr, "Failed to update event")), FALSE)
    /\ UNCHANGED <<sideVars, conv, merged, util, clickVars, inbox, posted, panel, currentMonth, currentYear,
                   selectedDate, remoteTasks>>

\* tasks.patch({tasklist, task, requestBody}) applied by the task store.
PatchTask(list, taskId, fd) ==
    LET old == ItemOf(remoteTasks, taskId)
    IN (remoteTasks \ {old}) \cup {[old EXCEPT !.title = fd.title, !.due = fd.date]}

TaskInList(list, taskId) ==
    \E t \in remoteTasks : t.id = taskId /\ t.list = list

\* The catch around the first patch of submitEditTask falls through to the
\* scan of all lists, whatever was thrown.
StartsScan(answer) == answer # "ok"

\* submitEditTask resumed after tasks.patch in the supplied list
EditTaskKnownList(h) ==
    /\ Suspended(h, "et_patch")
    /\ \E a \in Answers(TaskInList(handlers[h].msg.eventData.taskListId,
                                   handlers[h].msg.eventId)) :
        LET hr == [handlers[h] EXCEPT !.first = a]
            m == hr.msg
        IN /\ failures' = failures + Failed(a)
           /\ IF a = "ok"
              THEN /\ remoteTasks' = PatchTask(m.eventData.taskListId, m.eventId, m.formData)
                   /\ Commit(h, EnterRefresh(Notify(hr, "Task updated!"),
                                             currentYear, currentMonth, panel), FALSE)
              ELSE /\ UNCHANGED remoteTasks
                   /\ IF StartsScan(a)
                      THEN Commit(h, Calls([hr EXCEPT !.pc = "et_lists"],
                                           Call("tasklists.list", None, None)), FALSE)
                      ELSE Commit(h, Return(Notify(hr, "Failed to update task")), FALSE)
    /\ UNCHANGED <<sideVars, conv, merged, util, clickVars, inbox, posted, panel, currentMonth, currentYear,
                   selectedDate, remoteEvents>>

\* submitEditTask resumed after tasklists.list
EditTaskLists(h) ==
    /\ Suspended(h, "et_lists")
    /\ \E a \in Answers(TRUE) :
        LET hr == handlers[h]
        IN /\ failures' = failures + Failed(a)
           /\ IF a = "ok" /\ Len(TaskLists) > 0
              THEN Commit(h, Calls([hr EXCEPT !.pc = "et_scan", !.i = 1],
                                   Call("tasks.patch", hr.msg.eventId, TaskLists[1])), FALSE)
              ELSE IF a = "ok"
              THEN Commit(h, Return(Notify(hr, "Task not found in any list")), FALSE)
              ELSE Commit(h, Return(Notify(hr, "Failed to update task")), FALSE)
    /\ UNCHANGED <<sideVars, conv, merged, util, clickVars, inbox, posted, panel, currentMonth, currentYear,
                   selectedDate, remoteEvents, remoteTasks>>

\* The scan is over without a successful patch: the warning that is shown,
\* whatever the lists answered.
ScanReport(answers) == "Task not found in any list"

\* submitEditTask resumed after tasks.patch in list i of the scan
EditTaskScan(h) ==
    /\ Suspended(h, "et_scan")
    /\ \E a \in Answers(TaskInList(TaskLists[handlers[h].i], handlers[h].msg.eventId)) :
        LET hr == [handlers[h] EXCEPT !.answers = Append(@, a)]
            m == hr.msg
        IN /\ failures' = failures + Failed(a)
           /\ IF a = "ok"
              THEN /\ remoteTasks' = PatchTask(TaskLists[hr.i], m.eventId, m.formData)
                   /\ Commit(h, EnterRefresh(Notify(hr, "Task updated!"),
                                             currentYear, currentMonth, panel), FALSE)
              ELSE /\ UNCHANGED remoteTasks
                   /\ IF hr.i < Len(TaskLists)
                      THEN Commit(h, Calls([hr EXCEPT !.i = @ + 1],
                                           Call("tasks.patch", m.eventId, TaskLists[hr.i + 1])),
                                  FALSE)
                      ELSE Commit(h, Return(Notify(hr, ScanReport(hr.answers))), FALSE)
    /\ UNCHANGED <<sideVars, conv, merged, util, clickVars, inbox, posted, panel, currentMonth, currentYear,
                   selectedDate, remoteEvents>>

\* if (confirm === 'Delete'): the dialog answers 'Delete', or undefined when
\* it is dismissed.
AnyAnswerConfirms(confirm) == TRUE
Confirmed(confirm) == confirm = "Delete"

\* handleDeleteEvent resumed after the modal 'Delete this event?'
DeleteConfirm(h) ==
    /\ Suspended(h, "de_confirm")
    /\ \E confirm \in {"Delete", None} :
        LET hr == [handlers[h] EXCEPT !.answers = Append(@, confirm)]
        IN IF Confirmed(confirm)
           THEN Commit(h, Calls([hr EXCEPT !.pc = "de_delete"],
                                Call("events.delete", hr.msg.eventId, None)), FALSE)
           ELSE Commit(h, Return(hr), FALSE)
    /\ UNCHANGED <<sideVars, conv, merged, util, clickVars, inbox, posted, panel, currentMonth, currentYear,
                   selectedDate, storeVars>>

\* handleDeleteEvent resumed after calendarProvider.deleteEvent
DeleteDone(h) ==
    /\ Suspended(h, "de_delete")
    /\ \E a \in Answers(handlers[h].msg.eventId \in Ids(remoteEvents)) :
        LET hr == handlers[h]
        IN /\ failures' = failures + Failed(a)
           /\ IF a = "ok"
              THEN /\ remoteEvents' = {e \in remoteEvents : e.id # hr.msg.eventId}
                   /\ Commit(h, EnterRefresh(Notify(hr, "Event deleted!"),
                                             currentYear, currentMonth, panel), FALSE)
              ELSE /\ UNCHANGED remoteEvents
                   /\ Commit(h, Return(Notify(hr, "Failed to delete event")), FALSE)
    /\ UNCHANGED <<sideVars, conv, merged, util, clickVars, inbox, posted, panel, currentMonth, currentYear,
                   selectedDate, remoteTasks>>

\* ------------------------------------------------------------------------
\* Controller: the listener of onDidReceiveMessage, up to its first await
\* ------------------------------------------------------------------------

\* The web view delivers the posted messages in order; each delivery calls the
\* listener, which runs to its first await and leaves a suspended handler.
Active == {h \in 1..Len(handlers) : handlers[h].pc \notin {"done", "threw"}}

Delivers(type) ==
    /\ panel
    /\ Cardinality(Active) < MaxActive
    /\ inbox # <<>>
    /\ Head(inbox).type = type
    /\ inbox' = Tail(inbox)

Start(hr) == handlers' = Append(handlers, hr)

\* case 'navigate'
HandleNavigate ==
    /\ Delivers("navigate")
    /\ LET m == Head(inbox)
       IN /\ currentMonth' = m.month
          /\ currentYear' = m.year
          /\ Start(EnterRefresh(NewHandler(m), m.year, m.month, panel))
    /\ UNCHANGED <<sideVars, conv, merged, util, clickVars, surfaceVars, posted, panel, selectedDate,
                   formFields, storeVars>>

\* case 'refresh'
HandleRefresh ==
    /\ Delivers("refresh")
    /\ Start(EnterRefresh(NewHandler(Head(inbox)), currentYear, currentMonth, panel))
    /\ UNCHANGED <<sideVars, conv, merged, util, clickVars, surfaceVars, posted, ctrlVars, storeVars>>

\* case 'editEvent'
HandleEditEvent ==
    /\ Delivers("editEvent")
    /\ LET m == Head(inbox)
       IN /\ Start(Return(NewHandler(m)))
          /\ IF m.eventId # None
             THEN /\ eventFormMode' = "edit"
                  /\ editingEventId' = m.eventId
                  /\ editingEventData' = m.eventData
                  /\ editingEventType' = IF m.itemType = None THEN "calendar"
                                         ELSE m.itemType
                  /\ editingTaskListId' = m.eventData.taskListId
             ELSE UNCHANGED formFields
    /\ UNCHANGED <<sideVars, conv, merged, util, clickVars, surfaceVars, posted, panel, currentMonth,
                   currentYear, selectedDate, storeVars>>

\* The store a submitEventForm goes to: message.itemType || 'calendar'.
SubmitItemType(m) == IF m.itemType = None THEN "calendar" ELSE m.itemType

\* case 'submitEventForm', up to the first await of the chosen submit method
SubmitChain(m) ==
    LET hr == NewHandler(m)
        id == m.eventId
    IN IF m.formData.title = "" \/ m.mode \notin {"create", "edit"}
          \/ (m.mode = "edit" /\ id = None)
       THEN Return(hr)
       ELSE IF m.mode = "create" /\ SubmitItemType(m) = "task"
       THEN Calls([hr EXCEPT !.pc = "ct_lists"], Call("tasklists.list", None, None))
       ELSE IF m.mode = "create"
       THEN Calls([hr EXCEPT !.pc = "ce_insert",
                             !.body = RequestBody(EventTimes(m.formData))],
                  Call("events.insert", None, None))
       ELSE IF SubmitItemType(m) = "task" /\ m.eventData.taskListId # None
       THEN Calls([hr EXCEPT !.pc = "et_patch"],
                  Call("tasks.patch", id, m.eventData.taskListId))
       ELSE IF SubmitItemType(m) = "task"
       THEN Calls([hr EXCEPT !.pc = "et_lists"], Call("tasklists.list", None, None))
       ELSE Calls([hr EXCEPT !.pc = "ee_get"], Call("events.get", id, None))

HandleSubmitEventForm ==
    /\ Delivers("submitEventForm")
    /\ LET hr == SubmitChain(Head(inbox))
       IN /\ Start(hr)
          /\ IF hr.pc = "done" THEN ClearFormFields ELSE UNCHANGED formFields
    /\ UNCHANGED <<sideVars, conv, merged, util, clickVars, surfaceVars, posted, panel, currentMonth,
                   currentYear, selectedDate, storeVars>>

\* case 'cancelEventForm'
HandleCancelEventForm ==
    /\ Delivers("cancelEventForm")
    /\ eventFormMode' = None
    /\ editingEventId' = None
    /\ editingEventData' = NoEventData
    /\ UNCHANGED <<editingEventType, editingTaskListId>>
    /\ Start(EnterRefresh(NewHandler(Head(inbox)), currentYear, currentMonth, panel))
    /\ UNCHANGED <<sideVars, conv, merged, util, clickVars, surfaceVars, posted, panel, currentMonth,
                   currentYear, selectedDate, storeVars>>

\* case 'deleteEvent', up to the modal confirmation of handleDeleteEvent
HandleDeleteEvent ==
    /\ Delivers("deleteEvent")
    /\ LET m == Head(inbox)
       IN Start(IF m.eventId # None
                THEN [NewHandler(m) EXCEPT !.pc = "de_confirm"]
                ELSE Return(NewHandler(m)))
    /\ UNCHANGED <<sideVars, conv, merged, util, clickVars, surfaceVars, posted, ctrlVars, storeVars>>

\* case 'selectDate': the date of the message becomes the selection. The
\* script of the panel never posts this message.
HandleSelectDate ==
    /\ Delivers("selectDate")
    /\ LET m == Head(inbox)
       IN IF m.date # NoDate
          THEN /\ selectedDate' = m.date
               /\ Start(EnterRefresh(NewHandler(m), currentYear, currentMonth, panel))
          ELSE /\ UNCHANGED selectedDate
               /\ Start(Return(NewHandler(m)))
    /\ UNCHANGED <<sideVars, conv, merged, util, clickVars, surfaceVars, posted, panel, currentMonth,
                   currentYear, formFields, storeVars>>

\* case 'clearDate'
HandleClearDate ==
    /\ Delivers("clearDate")
    /\ selectedDate' = NoDate
    /\ Start(EnterRefresh(NewHandler(Head(inbox)), currentYear, currentMonth, panel))
    /\ UNCHANGED <<sideVars, conv, merged, util, clickVars, surfaceVars, posted, panel, currentMonth,
                   currentYear, formFields, storeVars>>

\* showCalendar: creates the panel when there is none, then refreshes.
ShowCalendar ==
    /\ posted < MaxPosts
    /\ Cardinality(Active) < MaxActive
    /\ posted' = posted + 1
    /\ panel' = TRUE
    /\ IF panel THEN UNCHANGED <<surfaceVars, inbox>>
       ELSE /\ rendered' = FALSE
            /\ view' = [items |-> <<>>, month |-> 0, year |-> 0]
            /\ wvSelectedDate' = NoDate
            /\ form' = FormHidden
            /\ inbox' = <<>>
    /\ Start(EnterRefresh(NewHandler(Message("showCalendar")),
                          currentYear, currentMonth, TRUE))
    /\ UNCHANGED <<sideVars, conv, merged, util, clickVars, currentMonth, currentYear, selectedDate,
                   formFields, storeVars>>

\* The user closes the panel: onDidDispose sets this.panel = undefined. The
\* web view is gone, with its document and the messages it had posted.
DisposePanel ==
    /\ panel
    /\ panel' = FALSE
    /\ rendered' = FALSE
    /\ view' = [items |-> <<>>, month |-> 0, year |-> 0]
    /\ wvSelectedDate' = NoDate
    /\ form' = FormHidden
    /\ inbox' = <<>>
    /\ UNCHANGED <<sideVars, conv, merged, util, clickVars, posted, currentMonth, currentYear, selectedDate,
                   formFields, handlers, storeVars>>

\* ------------------------------------------------------------------------
\* Panel surface: what the user does on the rendered document
\* ------------------------------------------------------------------------

\* A user action on the rendered document that posts messages.
Post(msgs) ==
    /\ panel
    /\ rendered
    /\ posted < MaxPosts
    /\ posted' = posted + 1
    /\ inbox' = inbox \o msgs

\* A user action on the rendered document that posts nothing; the run follows
\* it while a posting action can still come after it.
Gesture ==
    /\ panel
    /\ rendered
    /\ posted < MaxPosts
    /\ UNCHANGED <<inbox, posted>>

\* navigateMonth(direction)
NavigateMonth(direction) ==
    LET newMonth == view.month + direction
        m == IF newMonth < 0 THEN 11 ELSE IF newMonth > 11 THEN 0 ELSE newMonth
        y == IF newMonth < 0 THEN view.year - 1
             ELSE IF newMonth > 11 THEN view.year + 1 ELSE view.year
    IN /\ Post(<<[Message("navigate") EXCEPT !.month = m, !.year = y]>>)
       /\ UNCHANGED <<sideVars, conv, merged, util, clickVars, surfaceVars, ctrlVars, handlers, storeVars>>

\* navigateToday()
NavigateToday ==
    /\ Post(<<[Message("navigate") EXCEPT !.month = MonthOf(Today),
                                          !.year = YearOf(Today)]>>)
    /\ UNCHANGED <<sideVars, conv, merged, util, clickVars, surfaceVars, ctrlVars, handlers, storeVars>>

\* refreshCalendar() of the script
PostRefresh ==
    /\ Post(<<Message("refresh")>>)
    /\ UNCHANGED <<sideVars, conv, merged, util, clickVars, surfaceVars, ctrlVars, handlers, storeVars>>

\* clearSelection(): the clear button of the selected-date list, or a click on
\* the background while a date is selected.
ClearSelection ==
    /\ wvSelectedDate # NoDate
    /\ Post(<<Message("clearDate")>>)
    /\ wvSelectedDate' = NoDate
    /\ UNCHANGED <<sideVars, conv, merged, util, clickVars, form, rendered, view, ctrlVars, handlers, storeVars>>

DayShown(d) == YearOf(d) = view.year /\ MonthOf(d) = view.month

\* The single-click timer of day cell d fires: the selection toggle, which
\* is local to the script (no message is posted).
SelectDay(d) ==
    /\ Gesture
    /\ DayShown(d)
    /\ wvSelectedDate' = IF wvSelectedDate = d THEN NoDate ELSE d
    /\ UNCHANGED <<sideVars, conv, merged, util, clickVars, form, rendered, view, ctrlVars, handlers, storeVars>>

\* dblclick on day cell d, or createNewEvent() with today's date
OpenCreateForm(d) ==
    /\ Gesture
    /\ DayShown(d) \/ d = Today
    /\ form' = ShowEventForm("create", None,
                  [title |-> "", date |-> d, isAllDay |-> FALSE, itemType |-> None])
    /\ UNCHANGED <<sideVars, conv, merged, util, clickVars, wvSelectedDate, rendered, view, ctrlVars,
                   handlers, storeVars>>

\* editEvent(eventId, clickEvent): the edit button of a listed item
EditButton(k) ==
    /\ k \in 1..Len(view.items)
    /\ LET item == view.items[k]
       IN /\ form' = ShowEventForm("edit", item.id,
                        [title |-> item.title, date |-> item.dueDate,
                         isAllDay |-> ~item.hasTime, itemType |-> item.type])
          /\ Post(<<[Message("editEvent") EXCEPT
                        !.eventId = item.id, !.itemType = item.type,
                        !.eventData = [present |-> TRUE, itemType |-> item.type,
                                       taskListId |-> item.taskListId]]>>)
    /\ UNCHANGED <<sideVars, conv, merged, util, clickVars, wvSelectedDate, rendered, view, ctrlVars,
                   handlers, storeVars>>

\* dblclick on a listed item: the form opens without an item type
DblClickItem(k) ==
    /\ Gesture
    /\ k \in 1..Len(view.items)
    /\ LET item == view.items[k]
       IN form' = ShowEventForm("edit", item.id,
                     [title |-> item.title, date |-> item.dueDate,
                      isAllDay |-> ~item.hasTime, itemType |-> None])
    /\ UNCHANGED <<sideVars, conv, merged, util, clickVars, wvSelectedDate, rendered, view, ctrlVars,
                   handlers, storeVars>>

\* The user types a title into the form.
TypeTitle ==
    /\ Gesture
    /\ form.active
    /\ form.title = ""
    /\ form' = [form EXCEPT !.title = "T"]
    /\ UNCHANGED <<sideVars, conv, merged, util, clickVars, wvSelectedDate, rendered, view, ctrlVars,
                   handlers, storeVars>>

\* toggleEventType(): the user picks the other radio button of the form.
ToggleEventType ==
    /\ Gesture
    /\ form.active
    /\ form' = [form EXCEPT !.radioTask = ~form.radioTask]
    /\ UNCHANGED <<sideVars, conv, merged, util, clickVars, wvSelectedDate, rendered, view, ctrlVars,
                   handlers, storeVars>>

\* The user ticks or unticks the All-day checkbox of the form.
ToggleAllDay ==
    /\ Gesture
    /\ form.active
    /\ form' = [form EXCEPT !.isAllDay = ~form.isAllDay]
    /\ UNCHANGED <<sideVars, conv, merged, util, clickVars, wvSelectedDate, rendered, view, ctrlVars,
                   handlers, storeVars>>

\* The messages of a submit: the form, then the cancelEventForm that
\* cancelEventForm() posts when it hides the form.
SubmitMessages ==
    <<[Message("submitEventForm") EXCEPT
          !.mode = form.mode, !.eventId = form.eventId,
          !.itemType = IF form.radioTask THEN "task" ELSE "calendar",
          !.formData = [title |-> form.title, date |-> form.date,
                        isAllDay |-> form.isAllDay]],
      Message("cancelEventForm")>>

\* A submit that posts the form whatever its title.
SubmitFormUnchecked ==
    /\ form.active
    /\ Post(SubmitMessages)
    /\ form' = [form EXCEPT !.active = FALSE]
    /\ UNCHANGED <<sideVars, conv, merged, util, clickVars, wvSelectedDate, rendered, view, ctrlVars,
                   handlers, storeVars>>

\* submitEventForm(event): without a title it alerts and returns; otherwise
\* it posts the form, then cancelEventForm() hides it and posts
\* cancelEventForm.
SubmitForm ==
    /\ form.active
    /\ IF form.title = ""
       THEN /\ Gesture
            /\ form' = [form EXCEPT !.alerted = TRUE]
       ELSE /\ Post(SubmitMessages)
            /\ form' = [form EXCEPT !.active = FALSE]
    /\ UNCHANGED <<sideVars, conv, merged, util, clickVars, wvSelectedDate, rendered, view, ctrlVars,
                   handlers, storeVars>>

\* cancelEventForm(): the Cancel button
CancelForm ==
    /\ form.active
    /\ Post(<<Message("cancelEventForm")>>)
    /\ form' = [form EXCEPT !.active = FALSE]
    /\ UNCHANGED <<sideVars, conv, merged, util, clickVars, wvSelectedDate, rendered, view, ctrlVars,
                   handlers, storeVars>>

\* deleteEvent(eventId): the delete button of a listed item
DeleteButton(k) ==
    /\ k \in 1..Len(view.items)
    /\ Post(<<[Message("deleteEvent") EXCEPT !.eventId = view.items[k].id]>>)
    /\ UNCHANGED <<sideVars, conv, merged, util, clickVars, surfaceVars, ctrlVars, handlers, storeVars>>

\* ------------------------------------------------------------------------
\* Date utilities (DateTimeUtils.ts, ScheduleDialog, UnifiedDataMerger)
\*
\* A local calendar date is an integer YYYYMMDD and a time of day is a number
\* of minutes after midnight.  The zone offset is in minutes east of UTC
\* (local time = UTC + offset).  An instant on the wire is the string that
\* toISOString() produces: a date text and a time text, both in UTC.
\* ------------------------------------------------------------------------
MinutesPerDay == 1440

NoCall == [fn |-> None]

Offsets == {-300, 0, 120, 330}
PickDates == {20251020, 20251021}
PickHours == {0, 9, 21, 23}
PickMinutes == {0, 30}

NoInstant == [date |-> NoDate, time |-> 0]
NoConversion ==
    [date |-> NoDate, hours |-> 0, minutes |-> 0, offset |-> 0, op |-> None,
     wire |-> NoInstant]

\* Date.prototype.toISOString() of the local wall time (date, minutes) in a
\* zone `offset` minutes east of UTC.
ToISOString(date, minutes, offset) ==
    LET utc == minutes - offset
    IN IF utc < 0 THEN [date |-> date - 1, time |-> utc + MinutesPerDay]
       ELSE IF utc >= MinutesPerDay
            THEN [date |-> date + 1, time |-> utc - MinutesPerDay]
            ELSE [date |-> date, time |-> utc]

\* setHours(hours, minutes, 0, 0) sets the local wall time of the date.
ToRFC3339WithTime(date, hours, minutes, offset) ==
    ToISOString(date, hours * 60 + minutes, offset)

ToRFC3339DateOnly(date, offset) == ToISOString(date, 0, offset)

\* new Date(dateString), read with the local getters.
ParseRFC3339(wire, offset) ==
    LET local == wire.time + offset
    IN IF local < 0 THEN [date |-> wire.date - 1, time |-> local + MinutesPerDay]
       ELSE IF local >= MinutesPerDay
            THEN [date |-> wire.date + 1, time |-> local - MinutesPerDay]
            ELSE [date |-> wire.date, time |-> local]

\* split('T')[0]: the date text of the wire string.
ExtractDate(wire) == wire.date

\* formatDueDate shows the day named by the date text of the wire string.
FormatDueDate(wire) == ExtractDate(wire)

\* split('T')[1].substring(0, 5): the time text of the wire string.
ExtractTime(wire) == wire.time

\* Midnight of the date in the local zone, as toISOString() would write it.
LocalMidnight(date) == ToISOString(date, 0, conv.offset)

\* The template `${date}T00:00:00.000Z`.
UTCMidnight(date) == [date |-> date, time |-> 0]

Converts(op, wire) ==
    /\ conv.op = None
    /\ conv' = [conv EXCEPT !.op = op, !.wire = wire]
    /\ UNCHANGED <<clickVars, surfaceVars, inbox, posted, ctrlVars, handlers,
                   storeVars, merged, util, sideVars>>

\* showScheduleDialog: the picked date and time become the due instant.
ShowScheduleDialog ==
    Converts("toRFC3339WithTime",
             ToRFC3339WithTime(conv.date, conv.hours, conv.minutes, conv.offset))

\* A date without a time.
DateOnly == Converts("toRFC3339DateOnly", ToRFC3339DateOnly(conv.date, conv.offset))

\* submitCreateTaskFromForm with isAllDay checked.
SubmitCreateTaskAllDay == Converts("createTaskAllDay", UTCMidnight(conv.date))

\* submitCreateTaskFromForm with a time: new Date(`${date}T${time}:00`) is
\* read as local time.
SubmitCreateTaskTimed ==
    Converts("createTaskTimed",
             ToISOString(conv.date, conv.hours * 60 + conv.minutes, conv.offset))

\* submitEditTask: the due date of the edited task.
SubmitEditTaskDue == Converts("editTask", UTCMidnight(conv.date))

\* The schedule panel, case 'schedule'.
ScheduleSave == Converts("schedule", UTCMidnight(conv.date))

\* ------------------------------------------------------------------------
\* formatDueDate
\*
\* Here a day is a count of days from a fixed day. A zone has an offset in
\* minutes east of UTC and at most one daylight-saving change: from the day
\* zone.change on, local midnight is at offset + shift.
\* ------------------------------------------------------------------------
MaxDay == 6

Zones ==
    [offset : {-300}, change : 1..MaxDay, shift : {-60, 0, 60}]

OffsetAt(day, zone) ==
    IF day >= zone.change THEN zone.offset + zone.shift ELSE zone.offset

\* new Date(year, month, day).getTime(), in minutes.
MidnightTime(day, zone) == day * MinutesPerDay - OffsetAt(day, zone)

\* Math.ceil(a / b) for b > 0.
CeilDiv(a, b) == -((-a) \div b)

Abs(n) == IF n < 0 THEN -n ELSE n

\* formatDueDate(dueDateTime) evaluated on the day today: the relative word
\* or "date" for the month/day label, the suffix and its day count.
DueDateLabel(due, today, zone) ==
    LET dueTime == MidnightTime(due, zone)
        todayTime == MidnightTime(today, zone)
        daysFromNow == CeilDiv(dueTime - todayTime, MinutesPerDay)
    IN IF dueTime = todayTime
       THEN [word |-> "Today", suffix |-> None, days |-> 0]
       ELSE IF dueTime = MidnightTime(today + 1, zone)
       THEN [word |-> "Tomorrow", suffix |-> None, days |-> 0]
       ELSE IF dueTime = MidnightTime(today - 1, zone)
       THEN [word |-> "Yesterday", suffix |-> None, days |-> 0]
       ELSE [word |-> "date",
             suffix |-> IF daysFromNow > 0 THEN "from now"
                        ELSE IF daysFromNow < 0 THEN "ago" ELSE None,
             days |-> Abs(daysFromNow)]

LabelInputs ==
    [fn : {"formatDueDate"}, due : 0..MaxDay, today : 0..MaxDay, zone : Zones,
     done : {FALSE}, out : {None}]

\* A utility is called on the drawn argument.
Returns(fn, out) ==
    /\ util.fn = fn
    /\ ~util.done
    /\ util' = [util EXCEPT !.done = TRUE, !.out = out]
    /\ UNCHANGED <<clickVars, surfaceVars, inbox, posted, ctrlVars, handlers,
                   storeVars, conv, merged, sideVars>>

FormatDueDateCall ==
    Returns("formatDueDate", DueDateLabel(util.due, util.today, util.zone))

\* Date.prototype.getDay(): 0 is Sunday, 6 is Saturday; day 0 is a Sunday.
DaysPerWeek == 7
Saturday == 6
GetDay(day) == day % DaysPerWeek

\* The preset 'This Weekend': (6 - day + 7) % 7 || 6.
DaysUntilWeekend(day) ==
    LET n == (Saturday - day + DaysPerWeek) % DaysPerWeek
    IN IF n = 0 THEN 6 ELSE n

ThisWeekend(today) == today + DaysUntilWeekend(GetDay(today))

PresetInputs ==
    [fn : {"thisWeekend"}, today : 0..MaxDay, done : {FALSE}, out : {None}]

ThisWeekendCall == Returns("thisWeekend", ThisWeekend(util.today))

\* ------------------------------------------------------------------------
\* parseCustomTime
\*
\* The trimmed, upper-cased text is a run of digits, possibly a colon and a
\* second run of digits, possibly AM or PM after optional spaces; junk says
\* that it holds some other character as well.
\* ------------------------------------------------------------------------
MaxHourDigits == 2
MaxMinuteDigits == 2
Digits == {0, 1, 2, 6}

DigitRuns(n) == UNION {[1..k -> Digits] : k \in 0..n}

TimeTexts ==
    [digits1 : DigitRuns(MaxHourDigits) \ {<<>>}, colon : BOOLEAN,
     digits2 : DigitRuns(MaxMinuteDigits), period : {None, "AM", "PM"},
     junk : BOOLEAN]

\* parseInt of a run of digits.
RECURSIVE ParseInt(_)
ParseInt(run) ==
    IF run = <<>> THEN 0
    ELSE 10 * ParseInt(SubSeq(run, 1, Len(run) - 1)) + run[Len(run)]

NoMatch == [matched |-> FALSE, group1 |-> <<>>, group2 |-> <<>>]
Match(group1, group2) == [matched |-> TRUE, group1 |-> group1, group2 |-> group2]

\* /^(\d{1,2}):(\d{2})$/
TimePattern24(text) ==
    IF /\ ~text.junk /\ text.period = None /\ text.colon
       /\ Len(text.digits1) \in 1..2 /\ Len(text.digits2) = 2
    THEN Match(text.digits1, text.digits2)
    ELSE NoMatch

\* /^(\d{1,2}):?(\d{2})?\s*(AM|PM)$/: without a colon the digits are one
\* run, of which the last two are the minutes when it has three or four.
TimePattern12(text) ==
    LET run == text.digits1 \o text.digits2
    IN IF text.junk \/ text.period = None THEN NoMatch
       ELSE IF text.colon
       THEN IF Len(text.digits1) \in 1..2 /\ Len(text.digits2) \in {0, 2}
            THEN Match(text.digits1, text.digits2)
            ELSE NoMatch
       ELSE IF Len(run) \in 1..2 THEN Match(run, <<>>)
       ELSE IF Len(run) \in 3..4
       THEN Match(SubSeq(run, 1, Len(run) - 2), SubSeq(run, Len(run) - 1, Len(run)))
       ELSE NoMatch

Failure == [ok |-> FALSE, hours |-> 0, minutes |-> 0]
Time(hours, minutes) == [ok |-> TRUE, hours |-> hours, minutes |-> minutes]

\* The 12-hour branch without the exceptions for 12 AM and 12 PM.
To24HourNaive(hours, period) == IF period = "PM" THEN hours + 12 ELSE hours

\* The 12-hour branch: PM adds 12 except to 12, 12 AM is 0.
To24Hour(hours, period) ==
    IF period = "PM" /\ hours # 12 THEN hours + 12
    ELSE IF period = "AM" /\ hours = 12 THEN 0
    ELSE hours

ParseCustomTime(text) ==
    LET m24 == TimePattern24(text)
        m12 == TimePattern12(text)
    IN IF m24.matched /\ ParseInt(m24.group1) < 24 /\ ParseInt(m24.group2) < 60
       THEN Time(ParseInt(m24.group1), ParseInt(m24.group2))
       ELSE IF m12.matched
       THEN LET hours == ParseInt(m12.group1)
                minutes == ParseInt(m12.group2)
            IN IF hours < 1 \/ hours > 12 \/ minutes >= 60 THEN Failure
               ELSE Time(To24Hour(hours, text.period), minutes)
       ELSE Failure

TimeInputs == [fn : {"parseCustomTime"}, text : TimeTexts, done : {FALSE}, out : {None}]

ParseCustomTimeCall == Returns("parseCustomTime", ParseCustomTime(util.text))

\* ------------------------------------------------------------------------
\* parseCustomDate and the custom input of showDatePicker
\*
\* The trimmed text is three numerals in ISO, slash or dash form, a year and
\* a month (YYYY-MM), or something else.  The Date returned is given by the
\* calendar date and the time of day that the local getters read from it.
\* ------------------------------------------------------------------------
MonthsPerYear == 12

DateForms == {"iso", "slash", "dash", "yearMonth", "other"}
TextYears == {2025}
TextMonths == {0, 1, 10, 12, 13}
TextDays == {0, 1, 20, 31, 45}

DateTexts == [form : DateForms, year : TextYears, month : TextMonths, day : TextDays]

IsLeapYear(y) == (y % 4 = 0 /\ y % 100 # 0) \/ y % 400 = 0

DaysInMonth(y, m) ==
    IF m = 2 THEN (IF IsLeapYear(y) THEN 29 ELSE 28)
    ELSE IF m \in {4, 6, 9, 11} THEN 30
    ELSE 31

DateOf(y, m, d) == y * 10000 + m * 100 + d

\* MakeDay: months outside 1..12 move the year, days outside the month move
\* the month.
RECURSIVE MakeDay(_, _, _)
MakeDay(y, m, d) ==
    IF m > MonthsPerYear THEN MakeDay(y + 1, m - MonthsPerYear, d)
    ELSE IF m < 1 THEN MakeDay(y - 1, m + MonthsPerYear, d)
    ELSE IF d > DaysInMonth(y, m) THEN MakeDay(y, m + 1, d - DaysInMonth(y, m))
    ELSE IF d < 1
         THEN IF m = 1 THEN MakeDay(y - 1, MonthsPerYear, d + DaysInMonth(y - 1, MonthsPerYear))
              ELSE MakeDay(y, m - 1, d + DaysInMonth(y, m - 1))
    ELSE DateOf(y, m, d)

InvalidDate == [ok |-> FALSE, date |-> NoDate, time |-> 0]
LocalDate(date, time) == [ok |-> TRUE, date |-> date, time |-> time]

\* new Date(year, month - 1, day): midnight of the local zone.
NewLocalDate(y, m, d, offset) == LocalDate(MakeDay(y, m, d), 0)

\* new Date(trimmed + 'T00:00:00Z'): midnight UTC of a date-time string of
\* the standard format, whose date part is YYYY-MM-DD or YYYY-MM; NaN for
\* the other texts and for a month or a day out of range.
NewUTCDate(text, offset) ==
    LET day == IF text.form = "yearMonth" THEN 1 ELSE text.day
    IN IF /\ text.form \in {"iso", "yearMonth"}
          /\ text.month \in 1..MonthsPerYear
          /\ day \in 1..DaysInMonth(text.year, text.month)
       THEN IF offset < 0
            THEN LocalDate(MakeDay(text.year, text.month, day - 1), MinutesPerDay + offset)
            ELSE LocalDate(DateOf(text.year, text.month, day), offset)
       ELSE InvalidDate

ParseCustomDate(text, offset) ==
    LET date == NewUTCDate(text, offset)
    IN IF date.ok THEN date
       ELSE IF text.form = "slash"
       THEN NewLocalDate(text.year, text.month, text.day, offset)
       ELSE IF text.form = "dash"
       THEN NewLocalDate(text.year, text.month, text.day, offset)
       ELSE InvalidDate

\* showDatePicker with a custom text: a null shows the error and asks again.
ShowDatePicker(text, offset) ==
    LET parsedDate == ParseCustomDate(text, offset)
    IN [parsed |-> parsedDate, again |-> ~parsedDate.ok]

DateInputs ==
    [fn : {"showDatePicker"}, text : DateTexts, offset : Offsets, done : {FALSE},
     out : {None}]

ShowDatePickerCall == Returns("showDatePicker", ShowDatePicker(util.text, util.offset))

\* showScheduleDialog with a custom date typed in the given form and a
\* picked time: toRFC3339WithTime of the parsed Date.
ShowScheduleDialogTyped(shape, in) ==
    LET text == [form |-> shape, year |-> in.year, month |-> in.month, day |-> in.day]
        parsedDate == ParseCustomDate(text, in.offset)
    IN ToRFC3339WithTime(parsedDate.date, in.hours, in.minutes, in.offset)

ScheduleInputs ==
    [fn : {"showScheduleDialog"}, year : TextYears, month : {1, 10},
     day : {1, 20}, hours : PickHours, minutes : PickMinutes, offset : Offsets,
     done : {FALSE}, out : {None}]

\* The same day typed in each of the three forms.
ShowScheduleDialogCall ==
    Returns("showScheduleDialog",
            [f \in {"iso", "slash", "dash"} |-> ShowScheduleDialogTyped(f, util)])

\* ------------------------------------------------------------------------
\* getItemsForMonth (UnifiedDataMerger)
\* ------------------------------------------------------------------------
MaxItems == 2

DayOf(date) == date % 100

\* new Date('YYYY-MM-DD') is midnight UTC of that day; the local getters read
\* the day before in a zone west of UTC.
NewDateLocalDay(dueDate, offset) ==
    IF offset < 0
    THEN MakeDay(YearOf(dueDate), MonthOf(dueDate) + 1, DayOf(dueDate) - 1)
    ELSE dueDate

\* The filter of getItemsForMonth: getFullYear() and getMonth() of the Date.
InMonth(item, year, month, offset) ==
    LET itemDate == NewDateLocalDay(item.dueDate, offset)
    IN YearOf(itemDate) = year /\ MonthOf(itemDate) = month

GetItemsForMonth(items, year, month, offset) ==
    LET Keep(item) == InMonth(item, year, month, offset)
    IN SelectSeq(items, Keep)

MonthDueDates == {20251031, 20251101, 20251115, 20251130, 20251201}

MonthItems ==
    UNION {[1..n -> [id : {"a"}, dueDate : MonthDueDates]] : n \in 0..MaxItems}

MonthInputs ==
    [fn : {"getItemsForMonth"}, items : MonthItems, year : {2025},
     month : {9, 10, 11}, offset : Offsets, done : {FALSE}, out : {None}]

GetItemsForMonthCall ==
    Returns("getItemsForMonth",
            GetItemsForMonth(util.items, util.year, util.month, util.offset))

\* ------------------------------------------------------------------------
\* Task tree provider, schedule editor and calendar provider
\* ------------------------------------------------------------------------
NoTree == [fn |-> None]
NoScheduler == [fn |-> None]
NoCalendar == [fn |-> None]

restVars ==
    <<clickVars, surfaceVars, inbox, posted, ctrlVars, handlers, storeVars,
      conv, merged, util>>

\* ---- GTaskTreeProvider and the commands that call it ----
MaxOps == 2

\* The task store as the tree provider sees it: the task lists, whether the
\* first list was renamed, and for each task whether it exists and its due.
TreeStore ==
    [lists |-> {"L1"}, renamed |-> FALSE,
     tasks |-> [t \in {"t1", "t2"} |->
                  IF t = "t1" THEN [present |-> TRUE, due |-> 20251020]
                  ELSE [present |-> FALSE, due |-> NoDate]]]

NoNode == [id |-> "", due |-> NoDate]

\* The nodes a command can be invoked on: a task item of the tree, with or
\* without an id and a due value.
Nodes == [id : {"", "t1"}, due : {NoDate, 20251020}]

AwaitedOps == {"addTaskList", "deleteTaskList", "updateTaskList", "addTask", "patchTask"}
TreeOps == AwaitedOps \cup {"deleteTask"}

OpenTree ==
    [fn |-> "tree", store |-> TreeStore, requests |-> <<>>, refreshes |-> <<>>,
     shown |-> TreeStore, pc |-> "idle", node |-> NoNode, result |-> None,
     notes |-> {}]

\* What the remote service does with a request.
Apply(store, r) ==
    CASE r.op = "addTaskList" -> [store EXCEPT !.lists = @ \cup {"L2"}]
      [] r.op = "deleteTaskList" -> [store EXCEPT !.lists = @ \ {"L2"}]
      [] r.op = "updateTaskList" -> [store EXCEPT !.renamed = TRUE]
      [] r.op = "addTask" -> [store EXCEPT !.tasks["t2"].present = TRUE]
      [] r.op = "patchTask" -> [store EXCEPT !.tasks[r.task].due = r.due]
      [] r.op = "deleteTask" -> [store EXCEPT !.tasks[r.task].present = FALSE]

Request(op, task, due, by) ==
    [op |-> op, task |-> task, due |-> due, by |-> by, status |-> "sent"]

\* refresh(): the change event is fired; getChildren follows.  The record
\* keeps the request that led to it and the status that request had.
Refresh(by, at) == [by |-> by, at |-> at, fetched |-> FALSE, sawDone |-> FALSE]

\* deleteTask sends the request and calls refresh() in the same turn.
FiredAtOnce(op) == op = "deleteTask"

\* A mutating operation of the provider is called: the request is sent.
Send(op, task, due, by) ==
    LET sent == [tree EXCEPT !.requests = Append(@, Request(op, task, due, by))]
        n == Len(sent.requests)
    IN IF FiredAtOnce(op)
       THEN [sent EXCEPT !.refreshes = Append(@, Refresh(n, sent.requests[n].status))]
       ELSE sent

\* A command other than clearTaskSchedule calls the provider.
TreeCall(op) ==
    /\ tree.fn = "tree"
    /\ Len(tree.requests) < MaxOps
    /\ \E due \in (IF op = "patchTask" THEN {20251021} ELSE {NoDate}) :
          tree' = Send(op, "t1", due, "command")
    /\ UNCHANGED <<restVars, scheduler, calendar>>

AddTaskList == TreeCall("addTaskList")
DeleteTaskList == TreeCall("deleteTaskList")
UpdateTaskList == TreeCall("updateTaskList")
AddTask == TreeCall("addTask")
TreePatchTask == TreeCall("patchTask")
DeleteTask == TreeCall("deleteTask")

\* The service carries out a request.
Serve ==
    /\ tree.fn = "tree"
    /\ \E i \in 1..Len(tree.requests) :
          /\ tree.requests[i].status = "sent"
          /\ tree' = [tree EXCEPT !.store = Apply(@, tree.requests[i]),
                                  !.requests[i].status = "done"]
    /\ UNCHANGED <<restVars, scheduler, calendar>>

\* The service rejects a request: the awaiting operation throws and
\* refresh() is not reached.
Reject ==
    /\ tree.fn = "tree"
    /\ \E i \in 1..Len(tree.requests) :
          /\ tree.requests[i].status = "sent"
          /\ tree' = [tree EXCEPT !.requests[i].status = "failed"]
    /\ UNCHANGED <<restVars, scheduler, calendar>>

\* The operation resumes after its await and calls refresh().
Resume ==
    /\ tree.fn = "tree"
    /\ \E i \in 1..Len(tree.requests) :
          /\ tree.requests[i].status = "done"
          /\ ~FiredAtOnce(tree.requests[i].op)
          /\ tree' = [tree EXCEPT !.requests[i].status = "resumed",
                                  !.refreshes = Append(@, Refresh(i, tree.requests[i].status))]
    /\ UNCHANGED <<restVars, scheduler, calendar>>

\* getChildren() after a change event: the tree shows what the service holds.
GetChildren ==
    /\ tree.fn = "tree"
    /\ \E k \in 1..Len(tree.refreshes) :
          /\ ~tree.refreshes[k].fetched
          /\ tree' = [tree EXCEPT
                 !.shown = tree.store,
                 !.refreshes[k].fetched = TRUE,
                 !.refreshes[k].sawDone =
                     tree.requests[tree.refreshes[k].by].status
                         \in {"done", "resumed"}]
    /\ UNCHANGED <<restVars, scheduler, calendar>>

\* googleTasks.clearTaskSchedule up to its await.
ClearTaskSchedule ==
    /\ tree.fn = "tree"
    /\ tree.pc = "idle"
    /\ Len(tree.requests) < MaxOps
    /\ \E node \in Nodes :
          tree' = IF node.id = ""
                  THEN [tree EXCEPT !.node = node, !.notes = @ \cup {"cannotClear"}]
                  ELSE IF node.due = NoDate
                  THEN [tree EXCEPT !.node = node, !.notes = @ \cup {"noSchedule"}]
                  ELSE [tree EXCEPT !.node = node, !.pc = "confirm"]
    /\ UNCHANGED <<restVars, scheduler, calendar>>

\* A dialog whose every answer counts as a confirmation.
AnyResultClears(result) == TRUE

\* confirmClearSchedule: result === 'Clear'.
ConfirmClearSchedule(result) == result = "Clear"

\* googleTasks.clearTaskSchedule resumed with the answer of the modal
\* dialog: 'Clear', 'Cancel', or undefined when it is dismissed.
ClearAnswered ==
    /\ tree.fn = "tree"
    /\ tree.pc = "confirm"
    /\ \E result \in {"Clear", "Cancel", None} :
          tree' = IF ConfirmClearSchedule(result)
                  THEN [Send("patchTask", tree.node.id, NoDate, "clearTaskSchedule")
                            EXCEPT !.pc = "idle", !.result = result,
                                   !.notes = @ \cup {"cleared"}]
                  ELSE [tree EXCEPT !.pc = "idle", !.result = result]
    /\ UNCHANGED <<restVars, scheduler, calendar>>

\* ---- ScheduleWebViewProvider and its panel ----
MaxShows == 3

\* After construction: no panel, no task, no callbacks.  The history fields
\* count the panels created and keep the last message the panel posted.
NewScheduler ==
    [fn |-> "scheduler", panel |-> FALSE, currentTask |-> None,
     callbacks |-> FALSE, html |-> None, error |-> FALSE, created |-> 0,
     shows |-> 0, last |-> None, notes |-> {}]

\* showScheduler for a task of the tree (setTaskSchedule, editTaskSchedule).
ShowScheduler ==
    /\ scheduler.fn = "scheduler"
    /\ scheduler.shows < MaxShows
    /\ \E task \in {"t1", "t2"} :
          scheduler' =
              [scheduler EXCEPT
                  !.currentTask = task,
                  !.callbacks = TRUE,
                  !.panel = TRUE,
                  !.created = IF scheduler.panel THEN @ ELSE @ + 1,
                  !.html = task,
                  !.error = FALSE,
                  !.shows = @ + 1,
                  !.last = "show"]
    /\ UNCHANGED <<restVars, tree, calendar>>

\* saveSchedule() of the script: without a date it shows an error, with one
\* it posts 'schedule'; the provider calls onSchedule, which patches the
\* task, and shows 'Schedule saved!'.
SaveSchedule ==
    /\ scheduler.fn = "scheduler"
    /\ scheduler.panel
    /\ Len(tree.requests) < MaxOps
    /\ \E date \in {NoDate, 20251021} :
          IF date = NoDate
          THEN /\ ~scheduler.error
               /\ scheduler' = [scheduler EXCEPT !.error = TRUE]
               /\ UNCHANGED tree
          ELSE /\ scheduler' = [scheduler EXCEPT !.last = "schedule",
                                                 !.notes = @ \cup {"saved"}]
               /\ tree' = IF scheduler.callbacks
                          THEN Send("patchTask", scheduler.currentTask, date,
                                    "schedule")
                          ELSE tree
    /\ UNCHANGED <<restVars, calendar>>

\* cancelSchedule() of the script posts 'cancel'; onCancel does nothing.
CancelSchedule ==
    /\ scheduler.fn = "scheduler"
    /\ scheduler.panel
    /\ scheduler.last # "cancel"
    /\ scheduler' = [scheduler EXCEPT !.last = "cancel"]
    /\ UNCHANGED <<restVars, tree, calendar>>

\* The user closes the tab of the panel: onDidDispose.
ClosePanel ==
    /\ scheduler.fn = "scheduler"
    /\ scheduler.panel
    /\ scheduler' = [scheduler EXCEPT !.panel = FALSE, !.last = "dispose"]
    /\ UNCHANGED <<restVars, tree, calendar>>

\* ---- CalendarProvider: createEvent and updateEvent ----
MaxUpdates == 2

\* An undefined field is None.  A start or end object holds a date, a
\* dateTime, or neither.
NoTime == [date |-> None, dateTime |-> None]
OnDate(value) == [date |-> value, dateTime |-> None]
AtDateTime(value) == [date |-> None, dateTime |-> value]

NoEvent ==
    [id |-> "", summary |-> None, description |-> None, start |-> NoTime,
     end |-> NoTime, recurrence |-> None, reminders |-> None, isTask |-> FALSE]

\* After construction nothing is stored; createdAsTask keeps the isTask of
\* the createEvent call.
NewCalendar ==
    [fn |-> "calendar", stored |-> NoEvent, createdAsTask |-> FALSE,
     calls |-> <<>>]

\* The arguments of createEvent: from the form, or from createTaskEvent.
EventData ==
    [summary : {"S1"}, description : {"D1"}, startDate : {"a1"},
     endDate : {"b1"}, isAllDay : BOOLEAN, recurrence : {None},
     reminders : {None}, isTask : BOOLEAN]

\* The arguments of updateEvent: every field may be absent.
UpdateData ==
    [summary : {None, "S2"}, description : {None, "D2"}, startDate : {None, "a2"},
     endDate : {None, "b2"}, isAllDay : BOOLEAN, recurrence : {None, "R2"},
     reminders : {None, "M2"}]

\* x || y
Or(x, y) == IF x # None /\ x # "" THEN x ELSE y

\* The request body of createEvent.
NewEvent(eventData) ==
    [id |-> "c1",
     summary |-> eventData.summary,
     description |-> Or(eventData.description, ""),
     start |-> IF eventData.isAllDay THEN OnDate(eventData.startDate)
               ELSE AtDateTime(eventData.startDate),
     end |-> IF eventData.isAllDay THEN OnDate(eventData.endDate)
             ELSE AtDateTime(eventData.endDate),
     recurrence |-> eventData.recurrence,
     reminders |-> eventData.reminders,
     isTask |-> eventData.isTask]

\* createEvent: events.insert of the body.
CreateEvent ==
    /\ calendar.fn = "calendar"
    /\ calendar.stored = NoEvent
    /\ \E eventData \in EventData :
          calendar' = [calendar EXCEPT !.stored = NewEvent(eventData),
                                       !.createdAsTask = eventData.isTask]
    /\ UNCHANGED <<restVars, tree, scheduler>>

\* updateEvent is called; events.get is on its way.
UpdateEventCall ==
    /\ calendar.fn = "calendar"
    /\ calendar.stored # NoEvent
    /\ Len(calendar.calls) < MaxUpdates
    /\ \E updateData \in UpdateData :
          calendar' = [calendar EXCEPT !.calls =
              Append(@, [data |-> updateData, pc |-> "get", event |-> NoEvent,
                         body |-> NoEvent])]
    /\ UNCHANGED <<restVars, tree, scheduler>>

\* An events.get that leaves out the private extended properties.
CurrentEventWithoutPrivate(stored) == [stored EXCEPT !.isTask = FALSE]

\* events.get returns the stored resource, extended properties included.
CurrentEvent(stored) == stored

\* updateEvent resumed after events.get
UpdateEventGet ==
    /\ calendar.fn = "calendar"
    /\ \E c \in 1..Len(calendar.calls) :
          /\ calendar.calls[c].pc = "get"
          /\ calendar' = [calendar EXCEPT
                 !.calls[c].pc = "update",
                 !.calls[c].event = CurrentEvent(calendar.stored)]
    /\ UNCHANGED <<restVars, tree, scheduler>>

\* A field that is overwritten whether supplied or not.
Overwritten(value, old) == value

\* if (updateData.field) event.field = updateData.field
Supplied(value, old) == Or(value, old)

\* The body that updateEvent sends: the fetched event with the supplied
\* fields replaced.
UpdatedEvent(event, updateData) ==
    LET moved == updateData.startDate # None \/ updateData.endDate # None
    IN [event EXCEPT
          !.summary = Supplied(updateData.summary, @),
          !.description = Supplied(updateData.description, @),
          !.start = IF ~moved THEN @
                    ELSE IF updateData.isAllDay
                    THEN OnDate(Or(updateData.startDate, updateData.endDate))
                    ELSE AtDateTime(Or(updateData.startDate, event.start.dateTime)),
          !.end = IF ~moved THEN @
                  ELSE IF updateData.isAllDay
                  THEN OnDate(Or(updateData.endDate, updateData.startDate))
                  ELSE AtDateTime(Or(updateData.endDate, event.end.dateTime)),
          !.recurrence = IF updateData.recurrence # None
                         THEN updateData.recurrence ELSE @,
          !.reminders = IF updateData.reminders # None
                        THEN updateData.reminders ELSE @]

\* updateEvent sends events.update: the stored resource is replaced.
UpdateEventPut ==
    /\ calendar.fn = "calendar"
    /\ \E c \in 1..Len(calendar.calls) :
          /\ calendar.calls[c].pc = "update"
          /\ LET body == UpdatedEvent(calendar.calls[c].event, calendar.calls[c].data)
             IN calendar' = [calendar EXCEPT !.calls[c].pc = "done",
                                             !.calls[c].body = body,
                                             !.stored = body]
    /\ UNCHANGED <<restVars, tree, scheduler>>

InitSide ==
    /\ tree = NoTree
    /\ scheduler = NoScheduler
    /\ calendar = NoCalendar

InitClickMachine ==
    /\ now = StartMs
    /\ lastClickTime = [d \in DayCells |-> 0]
    /\ dayClickTimeouts = [d \in DayCells |-> NoTimer]
    /\ liveTimers = {}
    /\ browserClick = [day |-> NoDate, at |-> 0, count |-> 0]
    /\ pendingDbl = NoDate
    /\ pressLog = <<>>

InitStores ==
    /\ remoteEvents = InitEvents
    /\ remoteTasks = InitTasks
    /\ failures = 0

\* The constructor: the current month and year, nothing selected, no panel.
InitController ==
    /\ currentMonth = MonthOf(Today)
    /\ currentYear = YearOf(Today)
    /\ selectedDate = NoDate
    /\ eventFormMode = None
    /\ editingEventId = None
    /\ editingEventData = NoEventData
    /\ editingEventType = None
    /\ editingTaskListId = None

Init ==
    /\ InitClickMachine
    /\ InitStores
    /\ InitController
    /\ conv = NoConversion
    /\ merged = NoMerge
    /\ util = NoCall
    /\ InitSide
    /\ panel = FALSE
    /\ rendered = FALSE
    /\ view = [items |-> <<>>, month |-> 0, year |-> 0]
    /\ wvSelectedDate = NoDate
    /\ form = FormHidden
    /\ inbox = <<>>
    /\ posted = 0
    /\ handlers = <<>>

Next ==
    \/ ShowCalendar
    \/ DisposePanel
    \/ HandleNavigate
    \/ HandleRefresh
    \/ HandleEditEvent
    \/ HandleSubmitEventForm
    \/ HandleCancelEventForm
    \/ HandleDeleteEvent
    \/ HandleSelectDate
    \/ HandleClearDate
    \/ \E h \in 1..Len(handlers) : RefreshEvents(h)
    \/ \E h \in 1..Len(handlers) : RefreshLists(h)
    \/ \E h \in 1..Len(handlers) : RefreshTasks(h)
    \/ \E h \in 1..Len(handlers) : CreateEventDone(h)
    \/ \E h \in 1..Len(handlers) : CreateTaskLists(h)
    \/ \E h \in 1..Len(handlers) : CreateTaskDone(h)
    \/ \E h \in 1..Len(handlers) : EditEventGet(h)
    \/ \E h \in 1..Len(handlers) : EditEventDone(h)
    \/ \E h \in 1..Len(handlers) : EditTaskKnownList(h)
    \/ \E h \in 1..Len(handlers) : EditTaskLists(h)
    \/ \E h \in 1..Len(handlers) : EditTaskScan(h)
    \/ \E h \in 1..Len(handlers) : DeleteConfirm(h)
    \/ \E h \in 1..Len(handlers) : DeleteDone(h)
    \/ \E direction \in {-1, 1} : NavigateMonth(direction)
    \/ NavigateToday
    \/ PostRefresh
    \/ ClearSelection
    \/ \E d \in DayCells : SelectDay(d)
    \/ \E d \in DayCells : OpenCreateForm(d)
    \/ \E k \in 1..Len(view.items) : EditButton(k)
    \/ \E k \in 1..Len(view.items) : DblClickItem(k)
    \/ TypeTitle
    \/ ToggleAllDay
    \/ ToggleEventType
    \/ SubmitForm
    \/ CancelForm
    \/ \E k \in 1..Len(view.items) : DeleteButton(k)

Spec == Init /\ [][Next]_vars

\* The panel is open on a document the controller has rendered for the
\* current month, and no handler is in flight.
InitOpen ==
    /\ InitClickMachine
    /\ InitStores
    /\ InitController
    /\ conv = NoConversion
    /\ merged = NoMerge
    /\ util = NoCall
    /\ InitSide
    /\ panel = TRUE
    /\ rendered = TRUE
    /\ view = [items |-> MergeItems(TasksWithSchedules("L1") \o TasksWithSchedules("L2"),
                                    GetEventsForMonth(YearOf(Today), MonthOf(Today))),
               month |-> MonthOf(Today), year |-> YearOf(Today)]
    /\ wvSelectedDate = NoDate
    /\ form = FormHidden
    /\ inbox = <<>>
    /\ posted = 0
    /\ handlers = <<>>

\* The user works with the form of an open panel, and may close the panel.
NextForm ==
    \/ DisposePanel
    \/ HandleEditEvent
    \/ HandleSubmitEventForm
    \/ HandleCancelEventForm
    \/ \E h \in 1..Len(handlers) : RefreshEvents(h)
    \/ \E h \in 1..Len(handlers) : RefreshLists(h)
    \/ \E h \in 1..Len(handlers) : RefreshTasks(h)
    \/ \E h \in 1..Len(handlers) : CreateEventDone(h)
    \/ \E h \in 1..Len(handlers) : CreateTaskLists(h)
    \/ \E h \in 1..Len(handlers) : CreateTaskDone(h)
    \/ \E h \in 1..Len(handlers) : EditEventGet(h)
    \/ \E h \in 1..Len(handlers) : EditEventDone(h)
    \/ \E h \in 1..Len(handlers) : EditTaskLists(h)
    \/ \E h \in 1..Len(handlers) : EditTaskScan(h)
    \/ \E d \in DayCells : OpenCreateForm(d)
    \/ \E k \in 1..Len(view.items) : EditButton(k)
    \/ \E k \in 1..Len(view.items) : DblClickItem(k)
    \/ TypeTitle
    \/ ToggleEventType
    \/ SubmitForm
    \/ CancelForm

SpecForm == InitOpen /\ [][NextForm]_vars

\* submitEditTask(taskId, formData, taskListId) for each task id and each list
\* id a submitEventForm message can carry in its eventData.
EditTaskMessages ==
    {[Message("submitEventForm") EXCEPT
         !.mode = "edit", !.eventId = id, !.itemType = "task",
         !.formData = [title |-> "T", date |-> 20251021, isAllDay |-> TRUE],
         !.eventData = [present |-> TRUE, itemType |-> "task", taskListId |-> l]] :
     id \in {"t1", "e1", "e2"}, l \in {None, "L1", "L2"}}

InitEditTask ==
    /\ InitClickMachine
    /\ InitStores
    /\ InitController
    /\ conv = NoConversion
    /\ merged = NoMerge
    /\ util = NoCall
    /\ InitSide
    /\ panel = TRUE
    /\ rendered = TRUE
    /\ view = [items |-> MergeItems(TasksWithSchedules("L1") \o TasksWithSchedules("L2"),
                                    GetEventsForMonth(YearOf(Today), MonthOf(Today))),
               month |-> MonthOf(Today), year |-> YearOf(Today)]
    /\ wvSelectedDate = NoDate
    /\ form = FormHidden
    /\ inbox \in {<<m>> : m \in EditTaskMessages}
    /\ posted = MaxPosts
    /\ handlers = <<>>

NextEditTask ==
    \/ HandleSubmitEventForm
    \/ \E h \in 1..Len(handlers) : EditTaskKnownList(h)
    \/ \E h \in 1..Len(handlers) : EditTaskLists(h)
    \/ \E h \in 1..Len(handlers) : EditTaskScan(h)
    \/ \E h \in 1..Len(handlers) : RefreshEvents(h)
    \/ \E h \in 1..Len(handlers) : RefreshLists(h)
    \/ \E h \in 1..Len(handlers) : RefreshTasks(h)

SpecEditTask == InitEditTask /\ [][NextEditTask]_vars

\* The user opens, closes, navigates and refreshes the panel, selects days and
\* deletes items.
NextPanel ==
    \/ ShowCalendar
    \/ DisposePanel
    \/ HandleNavigate
    \/ HandleRefresh
    \/ HandleDeleteEvent
    \/ HandleClearDate
    \/ \E h \in 1..Len(handlers) : RefreshEvents(h)
    \/ \E h \in 1..Len(handlers) : RefreshLists(h)
    \/ \E h \in 1..Len(handlers) : RefreshTasks(h)
    \/ \E h \in 1..Len(handlers) : DeleteConfirm(h)
    \/ \E h \in 1..Len(handlers) : DeleteDone(h)
    \/ \E direction \in {-1, 1} : NavigateMonth(direction)
    \/ NavigateToday
    \/ PostRefresh
    \/ ClearSelection
    \/ \E d \in DayCells : SelectDay(d)
    \/ \E k \in 1..Len(view.items) : DeleteButton(k)

SpecPanel == Init /\ [][NextPanel]_vars

\* The panel is closed and opened again: the user navigates or opens an edit
\* form, closes the panel and runs the command that shows the calendar.
NextReopen ==
    \/ ShowCalendar
    \/ DisposePanel
    \/ HandleNavigate
    \/ HandleEditEvent
    \/ \E h \in 1..Len(handlers) : RefreshEvents(h)
    \/ \E h \in 1..Len(handlers) : RefreshLists(h)
    \/ \E h \in 1..Len(handlers) : RefreshTasks(h)
    \/ \E direction \in {-1, 1} : NavigateMonth(direction)
    \/ \E k \in 1..Len(view.items) : EditButton(k)

SpecReopen == InitOpen /\ [][NextReopen]_vars

\* Events saved from the form, with or without the All-day checkbox.
NextAllDay ==
    \/ HandleEditEvent
    \/ HandleSubmitEventForm
    \/ HandleCancelEventForm
    \/ \E h \in 1..Len(handlers) : RefreshEvents(h)
    \/ \E h \in 1..Len(handlers) : RefreshLists(h)
    \/ \E h \in 1..Len(handlers) : RefreshTasks(h)
    \/ \E h \in 1..Len(handlers) : CreateEventDone(h)
    \/ \E h \in 1..Len(handlers) : EditEventGet(h)
    \/ \E h \in 1..Len(handlers) : EditEventDone(h)
    \/ \E d \in DayCells : OpenCreateForm(d)
    \/ \E k \in 1..Len(view.items) : EditButton(k)
    \/ TypeTitle
    \/ ToggleAllDay
    \/ SubmitForm

SpecAllDay == InitOpen /\ [][NextAllDay]_vars


InitClick == InitOpen

NextClick ==
    \/ \E d \in DayCells : ClickDay(d)
    \/ \E d \in DayCells : DblClickDay(d)
    \/ \E t \in liveTimers : TimerFire(t)
    \/ Tick

SpecClick == InitClick /\ [][NextClick]_vars

\* The date utilities alone: a date, a time and a zone offset are drawn, then
\* one of the writers converts them.
InitDates ==
    /\ InitClickMachine
    /\ InitStores
    /\ InitController
    /\ conv \in [date : PickDates, hours : PickHours, minutes : PickMinutes,
                 offset : Offsets, op : {None}, wire : {NoInstant}]
    /\ merged = NoMerge
    /\ util = NoCall
    /\ InitSide
    /\ panel = FALSE
    /\ rendered = FALSE
    /\ view = [items |-> <<>>, month |-> 0, year |-> 0]
    /\ wvSelectedDate = NoDate
    /\ form = FormHidden
    /\ inbox = <<>>
    /\ posted = 0
    /\ handlers = <<>>

NextDates ==
    \/ ShowScheduleDialog
    \/ DateOnly
    \/ SubmitCreateTaskAllDay
    \/ SubmitCreateTaskTimed
    \/ SubmitEditTaskDue
    \/ ScheduleSave

SpecDates == InitDates /\ [][NextDates]_vars

\* mergeItems alone: the two inputs are drawn, then the function is called.
InitMerge ==
    /\ InitClickMachine
    /\ InitStores
    /\ InitController
    /\ conv = NoConversion
    /\ merged \in [tasks : SeqsOf(TasksIn, MaxTasksIn),
                   events : SeqsOf(EventsIn, MaxEventsIn),
                   out : {<<>>}, called : {FALSE}]
    /\ util = NoCall
    /\ InitSide
    /\ panel = FALSE
    /\ rendered = FALSE
    /\ view = [items |-> <<>>, month |-> 0, year |-> 0]
    /\ wvSelectedDate = NoDate
    /\ form = FormHidden
    /\ inbox = <<>>
    /\ posted = 0
    /\ handlers = <<>>

NextMerge == MergeCall

SpecMerge == InitMerge /\ [][NextMerge]_vars

\* The date utilities that take text or the clock: the argument is drawn,
\* then the function is called.
InitUtils ==
    /\ InitClickMachine
    /\ InitStores
    /\ InitController
    /\ conv = NoConversion
    /\ merged = NoMerge
    /\ util \in LabelInputs \cup PresetInputs \cup TimeInputs \cup DateInputs
                \cup MonthInputs \cup ScheduleInputs
    /\ InitSide
    /\ panel = FALSE
    /\ rendered = FALSE
    /\ view = [items |-> <<>>, month |-> 0, year |-> 0]
    /\ wvSelectedDate = NoDate
    /\ form = FormHidden
    /\ inbox = <<>>
    /\ posted = 0
    /\ handlers = <<>>

NextUtils ==
    \/ FormatDueDateCall
    \/ ThisWeekendCall
    \/ ParseCustomTimeCall
    \/ ShowDatePickerCall
    \/ GetItemsForMonthCall
    \/ ShowScheduleDialogCall

SpecUtils == InitUtils /\ [][NextUtils]_vars

\* ------------------------------------------------------------------------
\* Refreshes of an open panel whose user has a scheduled task in each list
\* ------------------------------------------------------------------------
TaskInFirstList == [id |-> "n9", list |-> "L1", title |-> "T", due |-> 20251021]

InitRefresh ==
    /\ InitClickMachine
    /\ remoteEvents = InitEvents
    /\ remoteTasks = InitTasks \cup {TaskInFirstList}
    /\ failures = 0
    /\ InitController
    /\ conv = NoConversion
    /\ merged = NoMerge
    /\ util = NoCall
    /\ InitSide
    /\ panel = TRUE
    /\ rendered = TRUE
    /\ view = [items |-> MergeItems(<<TaskInFirstList>> \o TasksWithSchedules("L2"),
                                    GetEventsForMonth(YearOf(Today), MonthOf(Today))),
               month |-> MonthOf(Today), year |-> YearOf(Today)]
    /\ wvSelectedDate = NoDate
    /\ form = FormHidden
    /\ inbox = <<>>
    /\ posted = 0
    /\ handlers = <<>>

NextRefresh ==
    \/ HandleNavigate
    \/ HandleRefresh
    \/ \E h \in 1..Len(handlers) : RefreshEvents(h)
    \/ \E h \in 1..Len(handlers) : RefreshLists(h)
    \/ \E h \in 1..Len(handlers) : RefreshTasks(h)
    \/ \E direction \in {-1, 1} : NavigateMonth(direction)
    \/ PostRefresh

SpecRefresh == InitRefresh /\ [][NextRefresh]_vars

\* ------------------------------------------------------------------------
\* The task tree: commands, remote requests, refreshes
\* ------------------------------------------------------------------------
\* The calendar panel is closed and no utility is being called.
InitRest ==
    /\ InitClickMachine
    /\ InitStores
    /\ InitController
    /\ conv = NoConversion
    /\ merged = NoMerge
    /\ util = NoCall
    /\ panel = FALSE
    /\ rendered = FALSE
    /\ view = [items |-> <<>>, month |-> 0, year |-> 0]
    /\ wvSelectedDate = NoDate
    /\ form = FormHidden
    /\ inbox = <<>>
    /\ posted = 0
    /\ handlers = <<>>

InitTree ==
    /\ InitRest
    /\ tree = OpenTree
    /\ scheduler = NoScheduler
    /\ calendar = NoCalendar

NextTree ==
    \/ AddTaskList
    \/ DeleteTaskList
    \/ UpdateTaskList
    \/ AddTask
    \/ TreePatchTask
    \/ DeleteTask
    \/ Serve
    \/ Reject
    \/ Resume
    \/ GetChildren
    \/ ClearTaskSchedule
    \/ ClearAnswered

SpecTree == InitTree /\ [][NextTree]_vars

\* ------------------------------------------------------------------------
\* The schedule editor
\* ------------------------------------------------------------------------
InitScheduler ==
    /\ InitRest
    /\ tree = OpenTree
    /\ scheduler = NewScheduler
    /\ calendar = NoCalendar

NextScheduler ==
    \/ ShowScheduler
    \/ SaveSchedule
    \/ CancelSchedule
    \/ ClosePanel
    \/ Serve
    \/ Resume
    \/ GetChildren

SpecScheduler == InitScheduler /\ [][NextScheduler]_vars

\* ------------------------------------------------------------------------
\* The calendar provider: an event is created and then updated
\* ------------------------------------------------------------------------
InitCalendar ==
    /\ InitRest
    /\ tree = NoTree
    /\ scheduler = NoScheduler
    /\ calendar = NewCalendar

NextCalendar ==
    \/ CreateEvent
    \/ UpdateEventCall
    \/ UpdateEventGet
    \/ UpdateEventPut

SpecCalendar == InitCalendar /\ [][NextCalendar]_vars

\* ------------------------------------------------------------------------
\* Click disambiguation
\* ------------------------------------------------------------------------

\* Press j completes a double press: the browser counted it as the second
\* press on the cell of press j-1, less than DOUBLE_CLICK_DELAY after it, and
\* its dblclick event has been dispatched.
DoublePress(j) ==
    /\ j \in 2..Len(pressLog)
    /\ pressLog[j].count = 2
    /\ pressLog[j].at - pressLog[j - 1].at < DOUBLE_CLICK_DELAY
    /\ (j = Len(pressLog) => pendingDbl = NoDate)

SinglePress(i) ==
    /\ pressLog[i].count = 1
    /\ \A k \in 1..Len(pressLog) :
        (k # i /\ pressLog[k].day = pressLog[i].day) =>
            \/ pressLog[k].at - pressLog[i].at > DOUBLE_CLICK_DELAY
            \/ pressLog[i].at - pressLog[k].at > DOUBLE_CLICK_DELAY

\* C3: click timers are per day cell. A timer is only ever cancelled by an
\* event on its own cell; a pending press keeps its own timer, due exactly
\* DOUBLE_CLICK_DELAY after the press, whatever happens on other cells; and a
\* single press performs its selection once that delay has passed.
C3_TimersArePerDayCell ==
    \A i \in 1..Len(pressLog) :
        /\ pressLog[i].fate = "cancelled" => pressLog[i].by = pressLog[i].day
        /\ pressLog[i].fate = "pending" =>
            /\ dayClickTimeouts[pressLog[i].day] = i
            /\ [press |-> i, day |-> pressLog[i].day,
                due |-> pressLog[i].at + DOUBLE_CLICK_DELAY] \in liveTimers
            /\ now <= pressLog[i].at + DOUBLE_CLICK_DELAY
        /\ (SinglePress(i) /\ now > pressLog[i].at + DOUBLE_CLICK_DELAY) =>
            pressLog[i].fate = "fired"

\* Two single presses on different day cells, the second while the timer of
\* the first was pending, have both performed their selection.
C3_Witness ==
    \E i, k \in 1..Len(pressLog) :
        /\ i < k
        /\ pressLog[i].day # pressLog[k].day
        /\ pressLog[k].at - pressLog[i].at < DOUBLE_CLICK_DELAY
        /\ pressLog[i].fate = "fired"
        /\ pressLog[k].fate = "fired"
        /\ wvSelectedDate = pressLog[k].day

\* ------------------------------------------------------------------------
\* Claims: submit, concurrency of handlers, disposal
\* ------------------------------------------------------------------------

IsSubmit(hr) == hr.type = "submitEventForm"

\* Handler record hr is suspended at a create or update call of a store.
MutationOutstanding(hr) ==
    IsSubmit(hr) /\ hr.pc \in {"ce_insert", "ct_insert", "ee_update", "et_patch", "et_scan"}

\* C1: while the create or update call of one submit is outstanding, a second
\* submit makes no such call of its own: at most one remote mutation is
\* outstanding at any time.
C1_OneMutationOutstanding ==
    Cardinality({h \in 1..Len(handlers) : MutationOutstanding(handlers[h])}) <= 1

FailureNotes ==
    {"Failed to create event", "Failed to create task", "Failed to update event",
     "Failed to update task"}

\* Handler h ends in this step, and its submit has failed.
SubmitFails(h) ==
    /\ h \in 1..Len(handlers)
    /\ IsSubmit(handlers[h])
    /\ handlers[h].pc # "done"
    /\ handlers'[h].pc = "done"
    /\ handlers'[h].notes \cap FailureNotes # {}

\* C4: when the create or update call of a submit fails, the error is shown
\* and the panel is back in the mode of the submit, with its draft and its
\* edit target: the form is shown with them, or the controller still holds
\* the mode and the target.
C4_FailedSubmitKeepsModeAndDraft ==
    [][\A h \in 1..Len(handlers) :
          SubmitFails(h) =>
             LET m == handlers[h].msg
             IN \/ /\ form'.active
                   /\ form'.mode = m.mode
                   /\ form'.eventId = m.eventId
                   /\ form'.title = m.formData.title
                \/ /\ eventFormMode' = m.mode
                   /\ editingEventId' = m.eventId]_vars

\* C5: no two handlers of the panel are active at the same time: a message
\* is not handled before the suspended handler has finished.
C5_OneHandlerAtATime == Cardinality(Active) <= 1

\* C6: after the panel is disposed, an operation that was in flight changes
\* no state field of the panel and renders nothing.
C6_NothingChangesAfterDisposal ==
    [][(~panel /\ ~panel') =>
          UNCHANGED <<currentMonth, currentYear, selectedDate, formFields,
                      rendered, view>>]_vars

C8_NotFoundOnlyWhenEveryListSaidSo ==
    \A h \in 1..Len(handlers) :
        LET hr == handlers[h]
        IN /\ \A k \in 1..Len(hr.answers) :
                 hr.answers[k] = "ok" => k = Len(hr.answers)
           /\ "Task not found in any list" \in hr.notes =>
                 /\ Len(hr.answers) = Len(TaskLists)
                 /\ \A k \in 1..Len(hr.answers) : hr.answers[k] = "notFound"

TaskStoreOps == {"tasks.patch", "tasks.insert", "tasklists.list"}
CalendarStoreOps == {"events.get", "events.update", "events.insert"}

\* C9: the first call of a submit goes to the store that owns its target: in
\* edit mode the task store for a task of the task store, the calendar store
\* for a calendar event, tagged as a task or not; in create mode the store
\* of the chosen item type.
C9_SubmitGoesToOwningStore ==
    \A h \in 1..Len(handlers) :
        LET hr == handlers[h]
        IN (IsSubmit(hr) /\ Len(hr.calls) > 0) =>
              /\ (hr.msg.mode = "edit" /\ hr.msg.eventId \in Ids(remoteTasks))
                    => hr.calls[1].op \in TaskStoreOps
              /\ (hr.msg.mode = "edit" /\ hr.msg.eventId \in Ids(remoteEvents))
                    => hr.calls[1].op \in CalendarStoreOps
              /\ hr.msg.mode = "create" =>
                    hr.calls[1].op \in (IF hr.msg.itemType = "task" THEN TaskStoreOps
                                        ELSE CalendarStoreOps)

\* C10: a confirmed delete goes to the store that owns the target: to the
\* task store for a task of the task store, to the calendar store for an
\* event.
C10_DeleteGoesToOwningStore ==
    \A h \in 1..Len(handlers) :
        \A k \in 1..Len(handlers[h].calls) :
            LET c == handlers[h].calls[k]
            IN (handlers[h].type = "deleteEvent" /\ c.id \in Ids(InitTasks)) =>
                  c.op \notin {"events.delete"}

\* ------------------------------------------------------------------------
\* Claims: delete declined, submit succeeded
\* ------------------------------------------------------------------------

\* Handler h was at the confirmation dialog and the dialog is dismissed in
\* this step.
DeleteDeclined(h) ==
    /\ h \in 1..Len(handlers)
    /\ handlers[h].pc = "de_confirm"
    /\ handlers'[h].answers = <<None>>

\* C11: when the confirmation of a delete is declined, the handler ends
\* there: it has made no call to a store (no delete, no refetch), it shows
\* nothing, and the fields of the panel, the document and the stores are as
\* they were.
C11_DeclinedDeleteDoesNothing ==
    [][\A h \in 1..Len(handlers) :
          DeleteDeclined(h) =>
             /\ handlers'[h].pc = "done"
             /\ handlers'[h].calls = <<>>
             /\ handlers'[h].notes = {}
             /\ UNCHANGED <<ctrlVars, surfaceVars, storeVars, inbox>>]_vars

C11_Witness ==
    \E h \in 1..Len(handlers) :
        /\ handlers[h].type = "deleteEvent"
        /\ handlers[h].answers = <<None>>
        /\ handlers[h].pc = "done"
        /\ handlers[h].msg.eventId \in Ids(remoteEvents)

SuccessNotes == {"Event created!", "Task created", "Event updated!", "Task updated!"}

\* Handler h ends in this step; its create or update call had succeeded, the
\* panel is open and no remote call of the run has failed.
SubmitSucceeds(h) ==
    /\ h \in 1..Len(handlers)
    /\ IsSubmit(handlers[h])
    /\ handlers[h].pc # "done"
    /\ handlers'[h].pc = "done"
    /\ handlers'[h].notes \cap SuccessNotes # {}
    /\ panel'
    /\ failures' = 0

HasCall(hr, op, list) ==
    \E k \in 1..Len(hr.calls) : hr.calls[k].op = op /\ hr.calls[k].list = list

\* C12: when the create or update call of a submit has succeeded, the handler
\* refetches the events and the tasks of every list, renders the merge of
\* what it fetched (a created item is in it), and ends with the form hidden
\* and no mode, target or draft left in the controller.
C12_SuccessfulSubmitRefetchesAndEndsIdle ==
    [][\A h \in 1..Len(handlers) :
          SubmitSucceeds(h) =>
             LET hr == handlers'[h]
             IN /\ HasCall(hr, "events.list", None)
                /\ HasCall(hr, "tasklists.list", None)
                /\ \A l \in 1..Len(TaskLists) : HasCall(hr, "tasks.list", TaskLists[l])
                /\ hr.renders = 1
                /\ rendered'
                /\ view'.items = MergeItems(hr.tasks, hr.events)
                /\ hr.msg.mode = "create" =>
                      \E k \in 1..Len(view'.items) : view'.items[k].id = NewIds[h]
                /\ form' = FormHidden
                /\ eventFormMode' = None
                /\ editingEventId' = None
                /\ editingEventData' = NoEventData
                /\ editingEventType' = None
                /\ editingTaskListId' = None]_vars

\* A successful edit made through the edit button has been rendered.
C12_Witness ==
    \E h \in 1..Len(handlers) :
        /\ IsSubmit(handlers[h])
        /\ handlers[h].pc = "done"
        /\ handlers[h].msg.mode = "edit"
        /\ handlers[h].notes \cap SuccessNotes # {}
        /\ handlers[h].renders = 1
        /\ \E g \in 1..Len(handlers) : handlers[g].type = "editEvent"
        /\ panel
        /\ failures = 0

\* ------------------------------------------------------------------------
\* Dates on the wire
\* ------------------------------------------------------------------------
WrittenByUtility == conv.op \in {"toRFC3339WithTime", "toRFC3339DateOnly"}

\* C13: a local date converted by toRFC3339WithTime or toRFC3339DateOnly and
\* read back as the text before 'T' is the same date again, in every zone.
C13_RoundTripGivesDateBack ==
    WrittenByUtility => ExtractDate(conv.wire) = conv.date

AllDayTaskWrite == conv.op \in {"createTaskAllDay", "editTask", "schedule"}

OutIds == {merged.out[k].id : k \in 1..Len(merged.out)}

\* C15: the output of mergeItems is ascending by dueDate, and of two items of
\* the same dueDate a task never stands behind a calendar item.
C15_MergeOutputIsSorted ==
    merged.called =>
        \A i, j \in 1..Len(merged.out) :
            i < j =>
                /\ merged.out[i].dueDate <= merged.out[j].dueDate
                /\ merged.out[i].dueDate = merged.out[j].dueDate
                     => ~(merged.out[i].type = "calendar"
                          /\ merged.out[j].type = "task")

C15_Witness ==
    /\ merged.called
    /\ [k \in 1..Len(merged.events) |-> merged.events[k].id] = <<"v1", "v3", "v7">>
    /\ [k \in 1..Len(merged.out) |-> merged.out[k].id] = <<"v7", "v3", "v1">>

\* The place of an output item in the input: the tasks come first, then the
\* events, each in the order given.
InputIndex(item) ==
    IF item.store = "tasks"
    THEN CHOOSE k \in 1..Len(merged.tasks) : merged.tasks[k].id = item.id
    ELSE Len(merged.tasks)
         + (CHOOSE k \in 1..Len(merged.events) : merged.events[k].id = item.id)

OutItem(id) == merged.out[CHOOSE k \in 1..Len(merged.out) : merged.out[k].id = id]

\* C16: every task-tagged event of the input is in the output as a task with
\* a due instant, every task of the task store that has a due value is in the
\* output as a task without one, and both carry the date of their start/due.
C16_TaskItemsCarryInstantByOrigin ==
    merged.called =>
        /\ \A k \in 1..Len(merged.events) :
              merged.events[k].isTask =>
                  /\ merged.events[k].id \in OutIds
                  /\ OutItem(merged.events[k].id).type = "task"
                  /\ OutItem(merged.events[k].id).hasTime
                  /\ OutItem(merged.events[k].id).dueDate = merged.events[k].date
        /\ \A k \in 1..Len(merged.tasks) :
              merged.tasks[k].due # NoDate =>
                  /\ merged.tasks[k].id \in OutIds
                  /\ OutItem(merged.tasks[k].id).type = "task"
                  /\ ~OutItem(merged.tasks[k].id).hasTime
                  /\ OutItem(merged.tasks[k].id).dueDate = merged.tasks[k].due

\* C17: the output holds exactly one item for every input task with a due
\* value and for every input event, and nothing else.
C17_MergeKeepsEveryDatedTaskAndEveryEvent ==
    merged.called =>
        /\ OutIds = {merged.tasks[k].id : k \in {n \in 1..Len(merged.tasks) :
                                                  merged.tasks[n].due # NoDate}}
                    \cup {merged.events[k].id : k \in 1..Len(merged.events)}
        /\ Len(merged.out) = Cardinality(OutIds)

\* C18: every item of the output has a dueDate.
C18_EveryOutputItemIsDated ==
    merged.called => \A k \in 1..Len(merged.out) : merged.out[k].dueDate # NoDate

\* C19: two output items of the same dueDate and the same type stand in the
\* order in which the input held them.
C19_MergeIsStable ==
    merged.called =>
        \A i, j \in 1..Len(merged.out) :
            (/\ i < j
             /\ merged.out[i].dueDate = merged.out[j].dueDate
             /\ merged.out[i].type = merged.out[j].type)
                => InputIndex(merged.out[i]) < InputIndex(merged.out[j])

C19_Witness ==
    /\ merged.called
    /\ [k \in 1..Len(merged.tasks) |-> merged.tasks[k].id] = <<"m2", "m1">>
    /\ [k \in 1..Len(merged.events) |-> merged.events[k].id] = <<"v2", "v3", "v1">>
    /\ [k \in 1..Len(merged.out) |-> merged.out[k].id]
           = <<"m2", "m1", "v3", "v2", "v1">>

\* ------------------------------------------------------------------------
\* The selected date
\* ------------------------------------------------------------------------
\* A single click on a day cell has taken effect in the panel.
DaySelectStep ==
    /\ wvSelectedDate' # wvSelectedDate
    /\ panel /\ panel' /\ rendered /\ rendered'
    /\ UNCHANGED <<handlers, inbox, view>>

\* The day cell that was clicked in such a step.
ClickedDay == IF wvSelectedDate' # NoDate THEN wvSelectedDate' ELSE wvSelectedDate

\* C20: selecting a day other than the selected one sets selectedDate to it,
\* selecting the selected day clears selectedDate, where selectedDate is the
\* field of the controller from which the next document is built.
C20_SelectToggleReachesPanelState ==
    [][DaySelectStep =>
          selectedDate' = IF selectedDate = ClickedDay THEN NoDate
                          ELSE ClickedDay]_vars

\* ------------------------------------------------------------------------
\* The state of the panel across disposal
\* ------------------------------------------------------------------------
\* showCalendar creates a panel.
PanelOpens == ~panel /\ panel'

\* C21: whenever a panel is opened, the mode is idle, the visible month and
\* year are the current ones and no date is selected.
C21_PanelOpensWithFreshState ==
    [][PanelOpens =>
          /\ eventFormMode' = None
          /\ currentMonth' = MonthOf(Today)
          /\ currentYear' = YearOf(Today)
          /\ selectedDate' = NoDate]_vars

\* The listener starts on a message of the given type.
Receives(type) ==
    /\ Len(handlers') = Len(handlers) + 1
    /\ handlers'[Len(handlers')].type = type

\* C22: after cancelEventForm the mode is idle and neither the edit target
\* id, its data, its item kind nor its task-list id remains.
C22_CancelDiscardsWholeDraft ==
    [][Receives("cancelEventForm") =>
          /\ eventFormMode' = None
          /\ editingEventId' = None
          /\ editingEventData' = NoEventData
          /\ editingEventType' = None
          /\ editingTaskListId' = None]_vars

\* Handler h, started on a navigate message, starts or resumes in this step.
NavigateStep(h) ==
    /\ handlers'[h].type = "navigate"
    /\ h > Len(handlers) \/ handlers'[h] # handlers[h]

\* C23: a navigate message sets the visible month and year to those of the
\* message and starts the refetch; no step of its handler changes the mode,
\* the edit target, selectedDate or the draft in the form.
C23_NavigateChangesOnlyVisibleMonth ==
    [][\A h \in 1..Len(handlers') :
          NavigateStep(h) =>
             /\ UNCHANGED <<selectedDate, formFields>>
             /\ form' = form
             /\ h > Len(handlers) =>
                   /\ currentMonth' = handlers'[h].msg.month
                   /\ currentYear' = handlers'[h].msg.year
                   /\ HasCall(handlers'[h], "events.list", None)]_vars

\* ------------------------------------------------------------------------
\* Validation of the form
\* ------------------------------------------------------------------------
\* The form is submitted without a title and the alert is shown.
EmptySubmitStep ==
    /\ form.active /\ form.title = "" /\ ~form.alerted
    /\ form'.alerted

\* C24: a submit of a form without a title posts nothing, so no handler and
\* no create or update call ever carries an empty title; the step leaves the
\* mode, the edit target and the stores alone and the form stays open with
\* its draft.
C24_EmptyTitleIsRejectedInTheForm ==
    /\ [](\A k \in 1..Len(inbox) :
             inbox[k].type = "submitEventForm" => inbox[k].formData.title # "")
    /\ [](\A h \in 1..Len(handlers) :
             IsSubmit(handlers[h]) => handlers[h].msg.formData.title # "")
    /\ [][EmptySubmitStep =>
             /\ UNCHANGED <<inbox, handlers, formFields, storeVars>>
             /\ form' = [form EXCEPT !.alerted = TRUE]]_vars

C24_Witness ==
    /\ form.active /\ form.alerted /\ form.title = ""
    /\ form.mode = "create"
    /\ inbox = <<>> /\ handlers = <<>>

\* ------------------------------------------------------------------------
\* Requests to the calendar store
\* ------------------------------------------------------------------------
\* C25: a create or update sent to the calendar store with isAllDay carries
\* pure dates in the date fields, without it full instants in the dateTime
\* fields; an instant is never in a date field nor a date in a dateTime field.
C25_AllDayRequestsCarryPureDates ==
    \A h \in 1..Len(handlers) :
        LET body == handlers[h].body
        IN body.present =>
              /\ body.isAllDay =>
                    /\ body.startField = "date" /\ body.startKind = "date"
                    /\ body.endField = "date" /\ body.endKind = "date"
              /\ ~body.isAllDay =>
                    /\ body.startField = "dateTime" /\ body.startKind = "instant"
                    /\ body.endField = "dateTime" /\ body.endKind = "instant"

\* ------------------------------------------------------------------------
\* Labels, presets and parsers of the date utilities
\* ------------------------------------------------------------------------
Labelled == util.fn = "formatDueDate" /\ util.done

\* C26: formatDueDate gives Today, Tomorrow or Yesterday without a suffix for
\* today, today+1 and today-1, and otherwise the month/day label with
\* '(Nd from now)' for a later day and '(Nd ago)' for an earlier day, N being
\* the number of whole days between today and the due day.
C26_LabelCountsWholeDays ==
    Labelled =>
        LET distance == util.due - util.today
        IN util.out =
              IF distance = 0 THEN [word |-> "Today", suffix |-> None, days |-> 0]
              ELSE IF distance = 1
              THEN [word |-> "Tomorrow", suffix |-> None, days |-> 0]
              ELSE IF distance = -1
              THEN [word |-> "Yesterday", suffix |-> None, days |-> 0]
              ELSE [word |-> "date",
                    suffix |-> IF distance > 0 THEN "from now" ELSE "ago",
                    days |-> Abs(distance)]

\* C27: on every weekday the preset 'This Weekend' gives a Saturday that is
\* at most 7 days after today.
C27_ThisWeekendIsASaturday ==
    (util.fn = "thisWeekend" /\ util.done) =>
        /\ GetDay(util.out) = Saturday
        /\ util.out >= util.today
        /\ util.out - util.today <= 7

TimeParsed == util.fn = "parseCustomTime" /\ util.done

\* The text is H:MM or HH:MM and nothing else.
Is24HourText(text) ==
    /\ ~text.junk /\ text.colon /\ text.period = None
    /\ Len(text.digits1) \in 1..2 /\ Len(text.digits2) = 2

\* The text is an hour, possibly minutes, and AM or PM: h, h:MM, hMM.
Is12HourText(text) ==
    /\ ~text.junk /\ text.period # None
    /\ \/ text.colon /\ Len(text.digits1) \in 1..2 /\ Len(text.digits2) \in {0, 2}
       \/ ~text.colon /\ Len(text.digits1 \o text.digits2) \in 1..4

\* The hour and the minutes that a 12-hour text names.
HourNamed(text) ==
    LET run == text.digits1 \o text.digits2
    IN IF text.colon \/ Len(run) <= 2 THEN ParseInt(text.digits1 \o (IF text.colon THEN <<>> ELSE text.digits2))
       ELSE ParseInt(SubSeq(run, 1, Len(run) - 2))

MinutesNamed(text) ==
    LET run == text.digits1 \o text.digits2
    IN IF text.colon THEN ParseInt(text.digits2)
       ELSE IF Len(run) <= 2 THEN 0
       ELSE ParseInt(SubSeq(run, Len(run) - 1, Len(run)))

\* C28: parseCustomTime gives failure or hours in 0..23 and minutes in 0..59;
\* H:MM in range is itself, 12 AM is hour 0, 12 PM hour 12, h PM is h + 12 and
\* h AM is h for h in 1..11; a text of neither form, or out of range, fails.
C28_ParseCustomTimeIsInRange ==
    TimeParsed =>
        LET text == util.text
            out == util.out
            h == HourNamed(text)
            m == MinutesNamed(text)
        IN /\ out.ok => out.hours \in 0..23 /\ out.minutes \in 0..59
           /\ Is24HourText(text) =>
                 IF ParseInt(text.digits1) <= 23 /\ ParseInt(text.digits2) <= 59
                 THEN out = Time(ParseInt(text.digits1), ParseInt(text.digits2))
                 ELSE ~out.ok
           /\ Is12HourText(text) =>
                 IF h \in 1..12 /\ m <= 59
                 THEN /\ out.ok /\ out.minutes = m
                      /\ (h = 12 /\ text.period = "AM") => out.hours = 0
                      /\ (h = 12 /\ text.period = "PM") => out.hours = 12
                      /\ (h < 12 /\ text.period = "PM") => out.hours = h + 12
                      /\ (h < 12 /\ text.period = "AM") => out.hours = h
                 ELSE ~out.ok
           /\ (~Is24HourText(text) /\ ~Is12HourText(text)) => ~out.ok

C28_Witness ==
    /\ TimeParsed
    /\ util.text = [digits1 |-> <<1, 2>>, colon |-> TRUE, digits2 |-> <<0, 6>>,
                    period |-> "PM", junk |-> FALSE]
    /\ util.out = Time(12, 6)

DateParsed == util.fn = "showDatePicker" /\ util.done

\* The text is in one of the three forms and names a day of the calendar.
DenotesDate(text) ==
    /\ text.form \in {"iso", "slash", "dash"}
    /\ text.month \in 1..MonthsPerYear
    /\ text.day \in 1..DaysInMonth(text.year, text.month)

\* C29: parseCustomDate gives the calendar date that a text in ISO, slash or
\* dash form denotes, and gives failure for a text of none of the three
\* forms, after which the date picker asks again.
C29_ParseCustomDateGivesDenotedDate ==
    DateParsed =>
        LET text == util.text
            out == util.out
        IN /\ DenotesDate(text) =>
                 /\ out.parsed.ok
                 /\ out.parsed.date = DateOf(text.year, text.month, text.day)
                 /\ ~out.again
           /\ text.form \notin {"iso", "slash", "dash"} =>
                 /\ ~out.parsed.ok
                 /\ out.again

\* C30: every item of the merged projection has isAllDay true exactly when it
\* carries no time of day, whether it comes from the task store or from the
\* calendar store.
C30_AllDayIffNoTime ==
    merged.called =>
        \A k \in 1..Len(merged.out) :
            merged.out[k].isAllDay <=> ~merged.out[k].hasTime

MonthFiltered == util.fn = "getItemsForMonth" /\ util.done

\* The items of a sequence whose dueDate lies in the month, in order.
DueInMonth(items, year, month) ==
    LET Due(item) == YearOf(item.dueDate) = year /\ MonthOf(item.dueDate) = month
    IN SelectSeq(items, Due)

\* C31: getItemsForMonth returns exactly the items whose dueDate lies in the
\* month, its first and last day included, for every zone offset.
C31_MonthFilterIsExact ==
    MonthFiltered => util.out = DueInMonth(util.items, util.year, util.month)

\* The clear requests sent so far.
ClearPatches(t) ==
    {i \in 1..Len(t.requests) : t.requests[i].by = "clearTaskSchedule"}

\* C32: clearTaskSchedule sends the patch that clears the due date only from
\* the confirmation dialog, for a task with an id and a due date; a step that
\* ends the command otherwise sends nothing and changes nothing.
C32_ClearOnlyAfterConfirm ==
    /\ [][ClearPatches(tree') # ClearPatches(tree) =>
             /\ tree.pc = "confirm"
             /\ tree'.result = "Clear"
             /\ tree.node.id # "" /\ tree.node.due # NoDate
             /\ "cleared" \in tree'.notes
             /\ tree'.requests[Len(tree'.requests)] =
                    Request("patchTask", tree.node.id, NoDate, "clearTaskSchedule")]_vars
    /\ [][(tree.pc = "confirm" /\ tree'.pc = "idle" /\ tree'.result # "Clear") =>
             /\ tree'.requests = tree.requests
             /\ tree'.store = tree.store
             /\ tree'.refreshes = tree.refreshes
             /\ tree'.notes = tree.notes]_vars
    /\ [][(tree.pc = "idle" /\ tree'.pc = "idle" /\ tree'.notes # tree.notes) =>
             /\ tree'.requests = tree.requests
             /\ tree'.store = tree.store
             /\ tree'.refreshes = tree.refreshes]_vars
    /\ [](tree.pc = "confirm" => tree.node.id # "" /\ tree.node.due # NoDate)

C32_Witness ==
    /\ ClearPatches(tree) # {}
    /\ tree.result = "Clear"
    /\ tree.store.tasks["t1"].due = NoDate
    /\ "cleared" \in tree.notes

\* C39: for every mutating operation of the task tree provider, the refresh
\* it triggers is fired only after the remote mutation has completed, and
\* the refetch that follows sees the state after the mutation.
C39_RefreshFollowsMutation ==
    \A k \in 1..Len(tree.refreshes) :
        /\ tree.refreshes[k].at = "done"
        /\ tree.refreshes[k].fetched => tree.refreshes[k].sawDone

\* C33: the schedule panel is created on the first showScheduler call, reused
\* by later calls while it is open, and disposed when the user saves or
\* cancels.
C33_PanelLifecycle ==
    /\ [][scheduler'.shows # scheduler.shows =>
             /\ scheduler'.panel
             /\ scheduler'.created =
                    IF scheduler.panel THEN scheduler.created
                    ELSE scheduler.created + 1]_vars
    /\ [][(scheduler'.last \in {"schedule", "cancel"}
              /\ scheduler'.last # scheduler.last) => ~scheduler'.panel]_vars

\* Every handler has finished and no message waits, and no remote call failed.
Quiescent ==
    /\ panel /\ rendered
    /\ inbox = <<>>
    /\ Active = {}
    /\ failures = 0

\* What a refresh started now would put on screen.
FreshContent ==
    [items |-> MergeItems(TasksWithSchedules("L1") \o TasksWithSchedules("L2"),
                          GetEventsForMonth(currentYear, currentMonth)),
     month |-> currentMonth, year |-> currentYear]

\* C34: once all overlapping handlers have finished, the projection on screen
\* is the one fetched for the current month and year after the last completed
\* mutation: an older fetch never overwrites a newer render.
C34_LastRenderIsNewest == Quiescent => view = FreshContent

\* No message is on its way and no handler is running.
Settled == panel /\ rendered /\ inbox = <<>> /\ Active = {}

\* C35: whenever the panel has settled, the selected date of the panel
\* surface equals the selectedDate of the controller, and a re-render never
\* changes which date is selected on the surface.
C35_SurfaceSelectionMatchesController ==
    /\ [](Settled => wvSelectedDate = selectedDate)
    /\ [][(rendered /\ panel /\ panel'
              /\ \E h \in 1..Len(handlers) :
                    handlers'[h].renders # handlers[h].renders)
             => wvSelectedDate' = wvSelectedDate]_vars

Updated == {c \in 1..Len(calendar.calls) : calendar.calls[c].pc = "done"}

\* C36: an event created as a task event is classified as type 'task' by the
\* merge, and stays so after any number of updateEvent calls on it.
C36_TaskEventStaysTask ==
    (calendar.fn = "calendar" /\ calendar.createdAsTask /\ calendar.stored # NoEvent)
        => EventType(calendar.stored) = "task"

C36_Witness ==
    /\ calendar.fn = "calendar"
    /\ calendar.createdAsTask
    /\ Cardinality(Updated) = MaxUpdates
    /\ calendar.stored.summary = "S2"
    /\ EventType(calendar.stored) = "task"

\* C37: updateEvent changes only what updateData supplies: summary,
\* description, recurrence and reminders keep the values of the event it
\* fetched when absent from updateData, and start and end change only when
\* startDate or endDate is supplied.
C37_UpdateKeepsWhatIsAbsent ==
    calendar.fn = "calendar" =>
        \A c \in Updated :
            LET data == calendar.calls[c].data
                old == calendar.calls[c].event
                new == calendar.calls[c].body
            IN /\ data.summary = None => new.summary = old.summary
               /\ data.description = None => new.description = old.description
               /\ data.recurrence = None => new.recurrence = old.recurrence
               /\ data.reminders = None => new.reminders = old.reminders
               /\ (data.startDate = None /\ data.endDate = None) =>
                     new.start = old.start /\ new.end = old.end
               /\ new.id = old.id

C37_Witness ==
    /\ calendar.fn = "calendar"
    /\ \E c \in Updated :
          /\ calendar.calls[c].data.summary = None
          /\ calendar.calls[c].data.description = "D2"
          /\ calendar.calls[c].data.startDate = None
          /\ calendar.calls[c].data.endDate = None
          /\ calendar.calls[c].body.description = "D2"
          /\ calendar.calls[c].body.summary = "S1"
          /\ calendar.calls[c].body.start = AtDateTime("a1")

\* Handler h resumes from a fetch of the task lists or of the tasks of a list
\* that has failed, during a refresh of an open panel.
TaskFetchFails(h) ==
    /\ handlers[h].pc \in {"rf_lists", "rf_tasks"}
    /\ handlers'[h] # handlers[h]
    /\ failures' = failures + 1
    /\ panel

\* C38: when the fetch of the task lists or of the tasks fails during a
\* refresh, the refresh still completes: the events are merged and rendered
\* without tasks, and no failure is reported to the user.
C38_TaskFailureRendersEventsOnly ==
    [][\A h \in 1..Len(handlers) :
          TaskFetchFails(h) =>
             /\ handlers'[h].pc = "done"
             /\ handlers'[h].renders = handlers[h].renders + 1
             /\ handlers'[h].notes = handlers[h].notes
             /\ rendered'
             /\ view'.items = MergeItems(<<>>, handlers[h].events)]_vars

\* C40: the same calendar day typed in ISO, slash or dash form gives the same
\* wire instant from toRFC3339WithTime with a given time, for every zone
\* offset.
C40_FormsGiveSameInstant ==
    (util.fn = "showScheduleDialog" /\ util.done) =>
        /\ util.out["iso"] = util.out["slash"]
        /\ util.out["slash"] = util.out["dash"]

====
